---- MODULE Spec2Model ----
(***************************************************************************)
(* Ticket-resale sales dashboard: the fetch/refresh protocol of the views  *)
(* (useAnalyticsData, CategorySalesPage, HealthPage) and the client-side   *)
(* aggregations over the fetched sale rows.                                *)
(***************************************************************************)
EXTENDS Integers, Sequences, FiniteSets, TLC

VARIABLES
  dbSales,      \* ids of the rows of the sales relation
  dbCats,       \* ids of the categories whose name matches categoryKeyword
  teamTab,      \* RiskPage/HeatmapPage/TopGamesPage: useState<TeamTab>
  hookSales,    \* useAnalyticsData: sales
  hookLoading,  \* useAnalyticsData: loading
  hookFetches,  \* useAnalyticsData: fetchData calls awaiting their query
  hookSeq,      \* number of fetchData calls started so far
  hookLast,     \* what the latest-started completed fetchData call committed
  catEvents,    \* CategorySalesPage: events
  catSales,     \* CategorySalesPage: sales
  catLoading,   \* CategorySalesPage: loading
  catFetches,   \* CategorySalesPage: fetchData calls suspended at an await
  catSeq,       \* number of CategorySalesPage fetchData calls started so far
  catNotifs,    \* postgres_changes notifications on sales not yet delivered
  dbSvcStatus,  \* service_health: status of the monitored service's row
  dbLogs,       \* health_logs: number of rows inserted so far (ids 1..dbLogs)
  mounted,      \* HealthPage: the mount effect has run (channels subscribed)
  health,       \* HealthPage: health (status of db, auth, data)
  logs,         \* HealthPage: logs
  services,     \* HealthPage: services
  running,      \* HealthPage: running
  runPc,        \* HealthPage: the await at which runChecks is suspended
  runs,         \* HealthPage: number of runChecks runs started so far
  initLogsPending, \* HealthPage: loadInitialLogs awaits its query
  svcLoads,     \* HealthPage: loadServiceHealth calls of the channel awaiting their query
  healthNotifs, \* notifications on service_health / health_logs not yet delivered
  aggSales,     \* the in-memory sale list an aggregation is computed from
  aggOut,       \* the aggregation last computed: the view's name and its rows
  addMounted,   \* AddSalePage: the mount effect has run
  addEvents,    \* AddSalePage: events (ids of the event options loaded)
  loadingEvents, \* AddSalePage: loadingEvents
  csvParsed,    \* AddSalePage: csvParsed (header and data rows), <<>> when null
  importingCsv, \* AddSalePage: importingCsv
  importPc,     \* AddSalePage: where importCsv is: the loop's row, success, the insert awaited
  submitPc,     \* AddSalePage: the insert onSubmit awaits, <<>> when none
  addToasts,    \* the toasts shown so far
  addStored,    \* the rows this page has inserted into sales, in order
  addRuns,      \* number of imports and submissions started so far
  tblSales,     \* SalesPage: sales
  tblPlatform,  \* SalesPage: platform (the platform filter)
  sortKey,      \* SalesPage: sortKey
  sortDir,      \* SalesPage: sortDir
  page,         \* SalesPage: page
  authStore,    \* the auth client's current session, Null when signed out
  authEvents,   \* auth state-change events not yet delivered to the guard's callback
  authGet,      \* AuthGuard: where the getSession() call of the mount effect is
  authMounted,  \* AuthGuard: the mount effect has run
  session,      \* AuthGuard: session
  authLoading,  \* AuthGuard: loading
  authLast,     \* the session of the latest event delivered to the guard, <<>> if none
  authChanges   \* number of sign-ins and sign-outs so far

hookVars == <<teamTab, hookSales, hookLoading, hookFetches, hookSeq, hookLast>>
catVars == <<catEvents, catSales, catLoading, catFetches, catSeq, catNotifs>>
healthVars == <<dbSvcStatus, dbLogs, mounted, health, logs, services, running, runPc,
                runs, initLogsPending, svcLoads, healthNotifs>>
dbVars == <<dbSales, dbCats>>
aggVars == <<aggSales, aggOut>>
addVars == <<addMounted, addEvents, loadingEvents, csvParsed, importingCsv, importPc,
             submitPc, addToasts, addStored, addRuns>>
tblVars == <<tblSales, tblPlatform, sortKey, sortDir, page>>
authVars == <<authStore, authEvents, authGet, authMounted, session, authLoading, authLast,
              authChanges>>
viewVars == <<tblVars, authVars>>
vars == <<dbVars, hookVars, catVars, healthVars, aggVars, addVars, viewVars>>

Null == "null"

\* ---- bounds ----
MaxFetches == 3
MaxNotifs == 1
MaxLogs == 2
MaxRuns == 2
MaxLoads == 2
MaxSales == 2
MaxTrendSales == 2
MaxCsvRows == 2
MaxAddRuns == 1
MaxAuthChanges == 2
MaxViewRows == 2
TicksPerDay == 2
Today == 400

\* ---- the store's relations ----
LFT == "LiveFootballTickets"
Platforms == {LFT, "Tixstock", "Fanpass", "LiveTicketGroup"}

EventIds == {"e1", "e2", "e3"}
CategoryIds == {"c1", "c2"}

\* names are lower-cased word lists; includes()/ilike is word containment.
\* A category outside dbCats has been renamed by another client.
CategoryName(c) ==
  IF c \notin dbCats THEN <<"archived">>
  ELSE IF c = "c1" THEN <<"liverpool", "fc">> ELSE <<"world", "cup">>

EventRow(e) ==
  CASE e = "e1" -> [id |-> "e1", event_date |-> 1, category_id |-> "c1",
                    name |-> <<"liverpool", "vs", "arsenal">>]
    [] e = "e2" -> [id |-> "e2", event_date |-> 2, category_id |-> "c2",
                    name |-> <<"brazil", "vs", "spain">>]
    [] OTHER    -> [id |-> "e3", event_date |-> 3, category_id |-> "c1",
                    name |-> <<"liverpool", "vs", "chelsea">>]

SaleIds == {1, 2, 3}

SaleRow(i) ==
  CASE i = 1 -> [id |-> 1, sold_at |-> 3, ticket_price |-> 100, quantity |-> 2,
                 platform |-> LFT, event_id |-> "e1"]
    [] i = 2 -> [id |-> 2, sold_at |-> 2, ticket_price |-> 50, quantity |-> 1,
                 platform |-> "Tixstock", event_id |-> "e2"]
    [] OTHER -> [id |-> 3, sold_at |-> 1, ticket_price |-> 80, quantity |-> 3,
                 platform |-> "Fanpass", event_id |-> Null]

\* events(name, categories(name)) embedded by the select; Null when event_id is null
JoinEvent(e) ==
  IF e = Null THEN [name |-> <<>>, category |-> <<>>, present |-> FALSE]
  ELSE [name |-> EventRow(e).name, category |-> CategoryName(EventRow(e).category_id),
        present |-> TRUE]

Joined(r) == [id |-> r.id, sold_at |-> r.sold_at, ticket_price |-> r.ticket_price,
              quantity |-> r.quantity, platform |-> r.platform,
              event_id |-> r.event_id, events |-> JoinEvent(r.event_id)]

\* .order("sold_at", { ascending: false })
RECURSIVE OrderDesc(_)
OrderDesc(S) ==
  IF S = {} THEN <<>>
  ELSE LET m == CHOOSE x \in S : \A y \in S : SaleRow(x).sold_at >= SaleRow(y).sold_at
       IN <<SaleRow(m)>> \o OrderDesc(S \ {m})

\* from("sales").select("..., events(id, name, event_date, categories(name))")
RECURSIVE JoinAll(_)
JoinAll(rows) ==
  IF rows = <<>> THEN <<>> ELSE <<Joined(Head(rows))>> \o JoinAll(Tail(rows))

HookQuery == JoinAll(OrderDesc(dbSales))

Includes(words, kw) == \E i \in 1..Len(words) : words[i] = kw

\* ---- useAnalyticsData ----
TeamTabs == {"all", "liverpool", "arsenal", "world-cup"}

TabKeyword(tab) == IF tab = "world-cup" THEN "world" ELSE tab

TabFilter(all, tab) ==
  IF tab = "all" THEN all
  ELSE LET Keep(s) == s.events.present /\
                      (Includes(s.events.category, TabKeyword(tab))
                       \/ Includes(s.events.name, TabKeyword(tab)))
       IN SelectSeq(all, Keep)

\* (data ?? [])
HookData(f) == IF f.state = "ok" THEN f.data ELSE <<>>

HookResult(f) == TabFilter(HookData(f), f.tab)

HookStart(tab) ==
  /\ hookSeq < MaxFetches
  /\ hookLoading' = TRUE
  /\ hookSeq' = hookSeq + 1
  /\ hookFetches' = hookFetches \cup
        {[seq |-> hookSeq + 1, tab |-> tab, state |-> "sent", data |-> <<>>]}

\* useEffect(() => { fetchData(); }, [fetchData]) on mount
HookMount ==
  /\ hookSeq = 0
  /\ HookStart(teamTab)
  /\ UNCHANGED <<viewVars, dbVars, catVars, healthVars, aggVars, addVars, teamTab, hookSales, hookLast>>

\* the Refresh button: onClick={refetch}
HookRefetch ==
  /\ hookSeq > 0
  /\ HookStart(teamTab)
  /\ UNCHANGED <<viewVars, dbVars, catVars, healthVars, aggVars, addVars, teamTab, hookSales, hookLast>>

\* AnalyticsTabs onChange={setTeamTab}: fetchData is recreated and the effect reruns
HookSetTeamTab ==
  \E t \in TeamTabs \ {teamTab} :
    /\ hookSeq > 0
    /\ teamTab' = t
    /\ HookStart(t)
    /\ UNCHANGED <<viewVars, dbVars, catVars, healthVars, aggVars, addVars, hookSales, hookLast>>

\* the store answers the query of one outstanding call
HookQueryOk ==
  \E f \in hookFetches :
    /\ f.state = "sent"
    /\ hookFetches' = (hookFetches \ {f}) \cup
          {[f EXCEPT !.state = "ok", !.data = HookQuery]}
    /\ UNCHANGED <<viewVars, dbVars, catVars, healthVars, aggVars, addVars, teamTab, hookSales, hookLoading, hookSeq, hookLast>>

HookQueryError ==
  \E f \in hookFetches :
    /\ f.state = "sent"
    /\ hookFetches' = (hookFetches \ {f}) \cup {[f EXCEPT !.state = "error"]}
    /\ UNCHANGED <<viewVars, dbVars, catVars, healthVars, aggVars, addVars, teamTab, hookSales, hookLoading, hookSeq, hookLast>>

\* the continuation after the await: setSales(all); setLoading(false)
HookCommit(f) == HookResult(f)

HookComplete ==
  \E f \in hookFetches :
    /\ f.state # "sent"
    /\ hookSales' = HookCommit(f)
    /\ hookLoading' = FALSE
    /\ hookFetches' = hookFetches \ {f}
    /\ hookLast' = IF f.seq > hookLast.seq
                     THEN [seq |-> f.seq, result |-> HookResult(f)]
                     ELSE hookLast
    /\ UNCHANGED <<viewVars, dbVars, catVars, healthVars, aggVars, addVars, teamTab, hookSeq>>

\* RiskPage body: {loading ? <Skeleton .../> : <>...rows of sales...</>}
RiskContent == IF hookLoading THEN "skeleton" ELSE "snapshot"

\* ---- writes to the store by other clients ----
DbInsertSale ==
  \E i \in SaleIds \ dbSales :
    /\ dbSales' = dbSales \cup {i}
    /\ UNCHANGED <<viewVars, dbCats, hookVars, catVars, healthVars, aggVars, addVars>>

DbDeleteSale ==
  \E i \in dbSales :
    /\ dbSales' = dbSales \ {i}
    /\ UNCHANGED <<viewVars, dbCats, hookVars, catVars, healthVars, aggVars, addVars>>

\* ---- CategorySalesPage (LiverpoolPage: categoryKeyword="Liverpool") ----
CategoryKeyword == "liverpool"

\* from("categories").select("id").ilike("name", `%${categoryKeyword}%`)
CatsQuery == {c \in CategoryIds : Includes(CategoryName(c), CategoryKeyword)}

\* from("events").select(...).in("category_id", catIds).order("event_date")
RECURSIVE OrderEvents(_)
OrderEvents(E) ==
  IF E = {} THEN <<>>
  ELSE LET m == CHOOSE x \in E :
                  \A y \in E : EventRow(x).event_date <= EventRow(y).event_date
       IN <<EventRow(m)>> \o OrderEvents(E \ {m})

EventsQuery(catIds) == OrderEvents({e \in EventIds : EventRow(e).category_id \in catIds})

\* (eventsData ?? []).map((e) => e.id)
EventIdsOf(eventsData) == {eventsData[i].id : i \in 1..Len(eventsData)}

\* from("sales").select(...).in("event_id", eventIds.length ? eventIds : [nil uuid])
SalesQuery(eventIds) == OrderDesc({i \in dbSales : SaleRow(i).event_id \in eventIds})

\* reduce((acc, s) => acc + s.ticket_price * s.quantity, 0)
RECURSIVE RevenueOf(_)
RevenueOf(ss) ==
  IF ss = <<>> THEN 0
  ELSE Head(ss).ticket_price * Head(ss).quantity + RevenueOf(Tail(ss))

\* reduce((acc, s) => acc + s.quantity, 0)
RECURSIVE TicketsOf(_)
TicketsOf(ss) ==
  IF ss = <<>> THEN 0 ELSE Head(ss).quantity + TicketsOf(Tail(ss))

\* salesList.filter((s) => s.event_id === ev.id)
SalesOfEvent(ss, e) == LET Keep(x) == x.event_id = e IN SelectSeq(ss, Keep)

RECURSIVE EventsWithStats(_, _)
EventsWithStats(eventsData, salesList) ==
  IF eventsData = <<>> THEN <<>>
  ELSE LET ev == Head(eventsData)
           evSales == SalesOfEvent(salesList, ev.id)
       IN <<[id |-> ev.id, name |-> ev.name, event_date |-> ev.event_date,
             revenue |-> RevenueOf(evSales), tickets |-> TicketsOf(evSales),
             saleCount |-> Len(evSales)]>>
          \o EventsWithStats(Tail(eventsData), salesList)

CatStart ==
  /\ catSeq < MaxFetches
  /\ catLoading' = TRUE
  /\ catSeq' = catSeq + 1
  /\ catFetches' = catFetches \cup
        {[seq |-> catSeq + 1, pc |-> "cats", catIds |-> {}, eventsData |-> <<>>]}

\* useEffect: fetchData() on mount, then the channel is subscribed
CatMount ==
  /\ catSeq = 0
  /\ CatStart
  /\ UNCHANGED <<viewVars, dbVars, hookVars, healthVars, aggVars, addVars, catEvents, catSales, catNotifs>>

\* <Button onClick={fetchData}> Refresh
CatRefresh ==
  /\ catSeq > 0
  /\ CatStart
  /\ UNCHANGED <<viewVars, dbVars, hookVars, healthVars, aggVars, addVars, catEvents, catSales, catNotifs>>

\* .on("postgres_changes", { event: "*", table: "sales" }, fetchData)
CatPush ==
  /\ catSeq > 0
  /\ catNotifs > 0
  /\ catNotifs' = catNotifs - 1
  /\ CatStart
  /\ UNCHANGED <<viewVars, dbVars, hookVars, healthVars, aggVars, addVars, catEvents, catSales>>

\* const catIds = (cats ?? []).map(...); if (catIds.length === 0) { setLoading(false); return; }
CatAfterCats(f, catIds) ==
  /\ IF catIds = {}
       THEN /\ catLoading' = FALSE
            /\ catFetches' = catFetches \ {f}
       ELSE /\ catLoading' = catLoading
            /\ catFetches' = (catFetches \ {f}) \cup
                  {[f EXCEPT !.pc = "events", !.catIds = catIds]}
  /\ UNCHANGED <<viewVars, dbVars, hookVars, healthVars, aggVars, addVars, catEvents, catSales, catSeq, catNotifs>>

CatCatsOk == \E f \in catFetches : f.pc = "cats" /\ CatAfterCats(f, CatsQuery)

CatCatsError == \E f \in catFetches : f.pc = "cats" /\ CatAfterCats(f, {})

\* const eventIds = (eventsData ?? []).map((e) => e.id), then the sales query is sent
CatAfterEvents(f, eventsData) ==
  /\ catFetches' = (catFetches \ {f}) \cup
        {[f EXCEPT !.pc = "sales", !.eventsData = eventsData]}
  /\ UNCHANGED <<viewVars, dbVars, hookVars, healthVars, aggVars, addVars, catEvents, catSales, catLoading, catSeq, catNotifs>>

CatEventsOk ==
  \E f \in catFetches : f.pc = "events" /\ CatAfterEvents(f, EventsQuery(f.catIds))

CatEventsError == \E f \in catFetches : f.pc = "events" /\ CatAfterEvents(f, <<>>)

CatEventsCommitStale(eventsData, salesList) == EventsWithStats(eventsData, catSales)

\* const eventsWithStats = (eventsData ?? []).map(...); setEvents(eventsWithStats)
CatEventsCommit(eventsData, salesList) == EventsWithStats(eventsData, salesList)

\* setSales(salesList); setEvents(eventsWithStats); setUpdatedAt(..); setLoading(false):
\* one synchronous continuation, whose state updates React applies in one render
CatAfterSales(f, salesList) ==
  /\ catSales' = salesList
  /\ catEvents' = CatEventsCommit(f.eventsData, salesList)
  /\ catLoading' = FALSE
  /\ catFetches' = catFetches \ {f}
  /\ UNCHANGED <<viewVars, dbVars, hookVars, healthVars, aggVars, addVars, catSeq, catNotifs>>

CatSalesOk ==
  \E f \in catFetches :
    f.pc = "sales" /\ CatAfterSales(f, SalesQuery(EventIdsOf(f.eventsData)))

CatSalesError == \E f \in catFetches : f.pc = "sales" /\ CatAfterSales(f, <<>>)

\* writes by other clients while the page is open; a write to sales is
\* announced on the page's channel once it is subscribed
CatNotify == IF catSeq > 0 THEN catNotifs + 1 ELSE catNotifs

CatDbInsertSale ==
  \E i \in SaleIds \ dbSales :
    /\ catNotifs < MaxNotifs
    /\ dbSales' = dbSales \cup {i}
    /\ catNotifs' = CatNotify
    /\ UNCHANGED <<viewVars, dbCats, hookVars, healthVars, aggVars, addVars, catEvents, catSales, catLoading, catFetches, catSeq>>

CatDbDeleteSale ==
  \E i \in dbSales :
    /\ catNotifs < MaxNotifs
    /\ dbSales' = dbSales \ {i}
    /\ catNotifs' = CatNotify
    /\ UNCHANGED <<viewVars, dbCats, hookVars, healthVars, aggVars, addVars, catEvents, catSales, catLoading, catFetches, catSeq>>

\* a category is renamed (its name stops or starts matching the keyword)
DbRenameCategory ==
  \E c \in CategoryIds :
    /\ dbCats' = IF c \in dbCats THEN dbCats \ {c} ELSE dbCats \cup {c}
    /\ UNCHANGED <<viewVars, dbSales, hookVars, catVars, healthVars, aggVars, addVars>>

\* ---- HealthPage ----
LogLimit == 50
LogTail == 100

ServiceRows == <<[name |-> "scraper", status |-> dbSvcStatus]>>

\* a console line: id 0 for a line added locally by addLog, else the row's id
LogEntry(i) == [id |-> i]

Max(a, b) == IF a >= b THEN a ELSE b

\* from('health_logs').select('*').order('created_at', desc).limit(50), reversed
InitialLogsQuery == [k \in 1..(dbLogs - Max(0, dbLogs - LogLimit)) |->
                        LogEntry(Max(0, dbLogs - LogLimit) + k)]

\* prev.slice(-100)
LastOf(ss, n) == IF Len(ss) <= n THEN ss ELSE SubSeq(ss, Len(ss) - n + 1, Len(ss))

\* runChecks without its first line (if (running) return)
RunChecksStartUnguarded ==
  /\ runs < MaxRuns
  /\ runs' = runs + 1
  /\ running' = TRUE
  /\ health' = [db |-> "pending", auth |-> "pending", data |-> "pending"]
  /\ logs' = Append(logs, LogEntry(0))
  /\ runPc' = "db"

\* runChecks up to its first await (inside fetchHealthStatuses)
RunChecksStart ==
  /\ ~running
  /\ runs < MaxRuns
  /\ runs' = runs + 1
  /\ running' = TRUE
  /\ health' = [db |-> "pending", auth |-> "pending", data |-> "pending"]
  /\ logs' = Append(logs, LogEntry(0))
  /\ runPc' = "db"

\* useEffect(() => { runChecks(); loadInitialLogs(); ...subscribe... }, [])
HealthMount ==
  /\ ~mounted
  /\ mounted' = TRUE
  /\ RunChecksStart
  /\ initLogsPending' = TRUE
  /\ UNCHANGED <<viewVars, dbVars, hookVars, catVars, aggVars, addVars, dbSvcStatus, dbLogs, services, svcLoads,
                 healthNotifs>>

\* <Button onClick={runChecks} disabled={running}>
RunChecksClick ==
  /\ mounted
  /\ RunChecksStart
  /\ UNCHANGED <<viewVars, dbVars, hookVars, catVars, aggVars, addVars, dbSvcStatus, dbLogs, mounted, services,
                 initLogsPending, svcLoads, healthNotifs>>

RunStep(item, status, next) ==
  /\ health' = [health EXCEPT ![item] = status]
  /\ runPc' = next
  /\ UNCHANGED <<viewVars, dbVars, hookVars, catVars, aggVars, addVars, dbSvcStatus, dbLogs, mounted, logs, services,
                 running, runs, initLogsPending, svcLoads, healthNotifs>>

\* 1. Database: the categories probe returns, or returns an error (thrown and caught)
ProbeDb ==
  /\ runPc = "db"
  /\ \E st \in {"ok", "error"} : RunStep("db", st, "auth")

\* 2. Auth: a session, no session, or getSession rejects
ProbeAuth ==
  /\ runPc = "auth"
  /\ \E st \in {"ok", "warn", "error"} : RunStep("auth", st, "data")

\* count of the sales whose event_id is null
Orphaned == Cardinality({i \in dbSales : SaleRow(i).event_id = Null})

\* 3. Data integrity: (orphaned ?? 0) > 0 ? warn : ok; a returned error leaves
\* count null; a rejection is caught
ProbeData ==
  /\ runPc = "data"
  /\ \E out \in {"count", "error", "throw"} :
       RunStep("data",
               IF out = "throw" THEN "error"
               ELSE IF out = "count" /\ Orphaned > 0 THEN "warn" ELSE "ok",
               "svc")

\* runChecks left by a rejection of loadServiceHealth: setRunning(false) is
\* not reached
RunLoadServicesRejects ==
  /\ runPc = "svc"
  /\ \E ok \in BOOLEAN :
        /\ services' = IF ok THEN ServiceRows ELSE services
        /\ running' = IF ok THEN FALSE ELSE running
  /\ runPc' = "idle"
  /\ UNCHANGED <<viewVars, dbVars, hookVars, catVars, aggVars, addVars, dbSvcStatus, dbLogs, mounted, health, logs,
                 runs, initLogsPending, svcLoads, healthNotifs>>

\* await loadServiceHealth(); setLastChecked(new Date()); setRunning(false)
RunLoadServices ==
  /\ runPc = "svc"
  /\ \E ok \in BOOLEAN : services' = IF ok THEN ServiceRows ELSE services
  /\ running' = FALSE
  /\ runPc' = "idle"
  /\ UNCHANGED <<viewVars, dbVars, hookVars, catVars, aggVars, addVars, dbSvcStatus, dbLogs, mounted, health, logs,
                 runs, initLogsPending, svcLoads, healthNotifs>>

\* loadInitialLogs after its await: if (data) setLogs(data.reverse().map(...))
InitialLogsResponse ==
  /\ initLogsPending
  /\ initLogsPending' = FALSE
  /\ \E ok \in BOOLEAN : logs' = IF ok THEN InitialLogsQuery ELSE logs
  /\ UNCHANGED <<viewVars, dbVars, hookVars, catVars, aggVars, addVars, dbSvcStatus, dbLogs, mounted, health, services,
                 running, runPc, runs, svcLoads, healthNotifs>>

\* another client updates the service's row; the change is announced on channel1
DbServiceChange ==
  /\ mounted
  /\ Len(healthNotifs) < MaxNotifs
  /\ dbSvcStatus' = IF dbSvcStatus = "ok" THEN "error" ELSE "ok"
  /\ healthNotifs' = Append(healthNotifs, [table |-> "service_health", id |-> 0])
  /\ UNCHANGED <<viewVars, dbVars, hookVars, catVars, aggVars, addVars, dbLogs, mounted, health, logs, services,
                 running, runPc, runs, initLogsPending, svcLoads>>

\* a monitored service inserts a health_logs row; the insert is announced on channel2
DbInsertLog ==
  /\ mounted
  /\ dbLogs < MaxLogs
  /\ Len(healthNotifs) < MaxNotifs
  /\ dbLogs' = dbLogs + 1
  /\ healthNotifs' = Append(healthNotifs, [table |-> "health_logs", id |-> dbLogs + 1])
  /\ UNCHANGED <<viewVars, dbVars, hookVars, catVars, aggVars, addVars, dbSvcStatus, mounted, health, logs, services,
                 running, runPc, runs, initLogsPending, svcLoads>>

\* channel1 handler: () => { loadServiceHealth(); }
PushServiceHealth ==
  /\ healthNotifs # <<>>
  /\ Head(healthNotifs).table = "service_health"
  /\ svcLoads < MaxLoads
  /\ healthNotifs' = Tail(healthNotifs)
  /\ svcLoads' = svcLoads + 1
  /\ UNCHANGED <<viewVars, dbVars, hookVars, catVars, aggVars, addVars, dbSvcStatus, dbLogs, mounted, health, logs,
                 services, running, runPc, runs, initLogsPending>>

\* loadServiceHealth after its await: if (data) setServices(data.map(...))
SvcLoadResponse ==
  /\ svcLoads > 0
  /\ svcLoads' = svcLoads - 1
  /\ \E ok \in BOOLEAN : services' = IF ok THEN ServiceRows ELSE services
  /\ UNCHANGED <<viewVars, dbVars, hookVars, catVars, aggVars, addVars, dbSvcStatus, dbLogs, mounted, health, logs,
                 running, runPc, runs, initLogsPending, healthNotifs>>

\* channel2 handler: setLogs(prev => [...prev.slice(-100), {id: d.id, ...payload.new}])
PushHealthLog ==
  /\ healthNotifs # <<>>
  /\ Head(healthNotifs).table = "health_logs"
  /\ healthNotifs' = Tail(healthNotifs)
  /\ logs' = Append(LastOf(logs, LogTail), LogEntry(Head(healthNotifs).id))
  /\ UNCHANGED <<viewVars, dbVars, hookVars, catVars, aggVars, addVars, dbSvcStatus, dbLogs, mounted, health, services,
                 running, runPc, runs, initLogsPending, svcLoads>>

\* ---- aggregations over the in-memory sale list ----
AggPrices == {50, 100}
AggQtys == {1, 2}
AggPlatforms == {LFT, "Tixstock", "Fanpass"}
AggEvents == {"e1", "e2", Null}

AggSaleValues == [ticket_price : AggPrices, quantity : AggQtys,
                  platform : AggPlatforms, event_id : AggEvents]

\* the rows as the select returns them (id = position, one sold_at)
AggRows(vs) == [i \in 1..Len(vs) |->
                  Joined([id |-> i, sold_at |-> 1, ticket_price |-> vs[i].ticket_price,
                          quantity |-> vs[i].quantity, platform |-> vs[i].platform,
                          event_id |-> vs[i].event_id])]

AggInputs == UNION {[1..n -> AggSaleValues] : n \in 0..MaxSales}

\* s.event_id ?? "unknown"
GroupId(x) == IF x.event_id = Null THEN "unknown" ELSE x.event_id

\* s.events?.name ?? "Unknown"
UnknownName == <<"Unknown">>
NameOf(x) == IF x.events.present THEN x.events.name ELSE UnknownName

\* keys of the byEvent / map object, in insertion order
RECURSIVE GroupIds(_)
GroupIds(ss) ==
  IF ss = <<>> THEN <<>>
  ELSE LET rest == GroupIds(SubSeq(ss, 1, Len(ss) - 1))
           k == GroupId(ss[Len(ss)])
       IN IF \E i \in 1..Len(rest) : rest[i] = k THEN rest ELSE Append(rest, k)

GroupOf(ss, k) == LET Keep(x) == GroupId(x) = k IN SelectSeq(ss, Keep)

OnPlatform(ss, p) == LET Keep(x) == x.platform = p IN SelectSeq(ss, Keep)

\* a quotient kept exact: units > 0 ? revenue / units : 0
AvgPrice(revenue, units) ==
  IF units > 0 THEN [num |-> revenue, den |-> units] ELSE [num |-> 0, den |-> 1]

Whole(n) == [num |-> n, den |-> 1]

\* Array.prototype.sort((a, b) => b.key - a.key): stable, descending
InsertDesc(sorted, p) ==
  LET before == {j \in 1..Len(sorted) :
                   sorted[j].key.num * p.key.den < p.key.num * sorted[j].key.den}
      at == IF before = {} THEN Len(sorted) + 1
            ELSE CHOOSE j \in before : \A k \in before : j <= k
  IN SubSeq(sorted, 1, at - 1) \o <<p>> \o SubSeq(sorted, at, Len(sorted))

RECURSIVE SortDesc(_)
SortDesc(ps) ==
  IF ps = <<>> THEN <<>>
  ELSE InsertDesc(SortDesc(SubSeq(ps, 1, Len(ps) - 1)), ps[Len(ps)])

\* .slice(0, n)
Take(ss, n) == IF Len(ss) <= n THEN ss ELSE SubSeq(ss, 1, n)

RECURSIVE MaxUnits(_)
MaxUnits(rows) ==
  IF rows = <<>> THEN 1 ELSE Max(Head(rows).units, MaxUnits(Tail(rows)))

\* HeatmapPage bubbles
BubbleLimit == 40

BubbleEntries(ss) ==
  LET ids == GroupIds(ss)
  IN [i \in 1..Len(ids) |->
        LET g == GroupOf(ss, ids[i])
        IN [id |-> ids[i], name |-> NameOf(g[1]), revenue |-> RevenueOf(g),
            units |-> TicketsOf(g), orders |-> Len(g),
            avgPrice |-> AvgPrice(RevenueOf(g), TicketsOf(g))]]

Bubbles(ss) ==
  LET entries == BubbleEntries(ss)
      maxUnits == MaxUnits(entries)
      keyed == [i \in 1..Len(entries) |->
                  [key |-> [num |-> entries[i].units, den |-> maxUnits],
                   row |-> entries[i]]]
      sorted == SortDesc(keyed)
  IN Take([i \in 1..Len(sorted) |-> sorted[i].row], BubbleLimit)

\* TopGamesPage games
TopLimit == 10
SortMetrics == {"revenue", "units", "avg_price", "sale_count"}

GameRows(ss) ==
  LET ids == GroupIds(ss)
  IN [i \in 1..Len(ids) |->
        LET g == GroupOf(ss, ids[i])
            lft == OnPlatform(g, LFT)
            fan == OnPlatform(g, "Fanpass")
        IN [id |-> ids[i], name |-> NameOf(g[1]), revenue |-> RevenueOf(g),
            units |-> TicketsOf(g), sale_count |-> Len(g),
            avg_price |-> AvgPrice(RevenueOf(g), TicketsOf(g)),
            lft_rev |-> RevenueOf(lft), fanpass_rev |-> RevenueOf(fan),
            tix_rev |-> RevenueOf(g) - RevenueOf(lft) - RevenueOf(fan)]]

MetricKey(row, metric) ==
  CASE metric = "revenue" -> Whole(row.revenue)
    [] metric = "units" -> Whole(row.units)
    [] metric = "sale_count" -> Whole(row.sale_count)
    [] OTHER -> row.avg_price

Games(ss, sortMetric) ==
  LET rows == GameRows(ss)
      keyed == [i \in 1..Len(rows) |-> [key |-> MetricKey(rows[i], sortMetric),
                                       row |-> rows[i]]]
      sorted == SortDesc(keyed)
  IN Take([i \in 1..Len(sorted) |-> sorted[i].row], TopLimit)

\* the per-event statistics of the market page, then .filter((e) => e.name !== "Unknown")
EventStats(ss) ==
  LET ids == GroupIds(ss)
      all == [i \in 1..Len(ids) |->
                LET g == GroupOf(ss, ids[i])
                IN [id |-> ids[i], name |-> NameOf(g[1]), revenue_total |-> RevenueOf(g),
                    avg_price |-> AvgPrice(RevenueOf(g), TicketsOf(g)),
                    sale_count |-> Len(g)]]
      Keep(e) == e.name # UnknownName
  IN SelectSeq(all, Keep)

\* EventsPage fetchEvents: one entry per row of events, from the sales with its id
RECURSIVE OrderEventsDesc(_)
OrderEventsDesc(E) ==
  IF E = {} THEN <<>>
  ELSE LET m == CHOOSE x \in E :
                  \A y \in E : EventRow(x).event_date >= EventRow(y).event_date
       IN <<EventRow(m)>> \o OrderEventsDesc(E \ {m})

EventsPageStats(ss) ==
  LET eventsData == OrderEventsDesc(EventIds)
  IN [i \in 1..Len(eventsData) |->
        LET evSales == SalesOfEvent(ss, eventsData[i].id)
        IN [id |-> eventsData[i].id, name |-> eventsData[i].name,
            total_revenue |-> RevenueOf(evSales), total_tickets |-> TicketsOf(evSales),
            sale_count |-> Len(evSales)]]

\* Index fetchData: platform breakdown
IndexPlatformData(ss) ==
  <<[name |-> LFT, value |-> RevenueOf(OnPlatform(ss, LFT))],
    [name |-> "Tixstock", value |-> RevenueOf(OnPlatform(ss, "Tixstock"))]>>

\* AnalyticsPage platformData: keys of the by object, in insertion order
RECURSIVE PlatformKeys(_)
PlatformKeys(ss) ==
  IF ss = <<>> THEN <<>>
  ELSE LET rest == PlatformKeys(SubSeq(ss, 1, Len(ss) - 1))
           k == ss[Len(ss)].platform
       IN IF \E i \in 1..Len(rest) : rest[i] = k THEN rest ELSE Append(rest, k)

AnalyticsPlatformData(ss) ==
  LET ks == PlatformKeys(ss)
  IN [i \in 1..Len(ks) |->
        [name |-> IF ks[i] = LFT THEN "LFT" ELSE ks[i],
         revenue |-> RevenueOf(OnPlatform(ss, ks[i]))]]

\* Index fetchData: summary stats
IndexSummary(ss) ==
  LET totalRevenue == RevenueOf(ss)
      totalTickets == TicketsOf(ss)
      totalSales == Len(ss)
  IN [total_revenue |-> totalRevenue, total_tickets |-> totalTickets,
      total_sales |-> totalSales,
      avg_price |-> IF totalSales > 0 THEN [num |-> totalRevenue, den |-> totalSales]
                    ELSE [num |-> 0, den |-> 1]]

AggCompute(view, rows) ==
  /\ aggOut' = [view |-> view, rows |-> rows]
  /\ UNCHANGED <<viewVars, dbVars, hookVars, catVars, healthVars, addVars, aggSales>>

AggHeatmap == AggCompute("bubbles", Bubbles(aggSales))

AggTopGames == \E m \in SortMetrics : AggCompute("games", Games(aggSales, m))

AggEventStats == AggCompute("eventStats", EventStats(aggSales))

AggEventsPage == AggCompute("eventsPage", EventsPageStats(aggSales))

AggIndexPlatform == AggCompute("indexPlatform", IndexPlatformData(aggSales))

AggAnalyticsPlatform == AggCompute("analyticsPlatform", AnalyticsPlatformData(aggSales))

AggIndexSummary == AggCompute("indexSummary", <<IndexSummary(aggSales)>>)

\* ---- time: instants are ticks, TicksPerDay ticks to a calendar day ----
\* the instant `tick` ticks after midnight of the day `daysAgo` days before Today
At(daysAgo, tick) == (Today - daysAgo) * TicksPerDay + tick

\* date-fns startOfDay, subDays
startOfDay(t) == (t \div TicksPerDay) * TicksPerDay
subDays(t, n) == t - n * TicksPerDay

\* new Date(): midnight or a later instant of Today
NowTimes == {At(0, 0), At(0, 1)}

\* ---- RiskPage ----
\* events(id, name, event_date, ...) embedded by the select; event_date is
\* <<>> when null, <<t>> otherwise
RiskEvent(e) ==
  CASE e = "e1" -> [present |-> TRUE, name |-> <<"liverpool", "vs", "arsenal">>,
                    event_date |-> <<At(0 - 5, 0)>>]
    [] OTHER    -> [present |-> FALSE, name |-> <<>>, event_date |-> <<>>]

\* the rows of useAnalyticsData, in the order of the query (sold_at descending)
RiskRows(vs) == [i \in 1..Len(vs) |->
                   [id |-> i, sold_at |-> vs[i].sold_at,
                    ticket_price |-> vs[i].ticket_price, quantity |-> vs[i].quantity,
                    platform |-> LFT, event_id |-> vs[i].event_id,
                    events |-> RiskEvent(vs[i].event_id)]]

\* the sales the page is given: up to MaxTrendSales of them, each in either
\* window, on the boundary of a window or in the future
RiskInputs ==
  LET RiskSaleValues ==
        [sold_at : {At(3, 1), At(7, 0), At(10, 1), At(0 - 1, 0)},
         ticket_price : {80, 100},
         quantity : {1, 3, 4, 17, 20},
         event_id : {"e1", Null}]
  IN {vs \in UNION {[1..n -> RiskSaleValues] : n \in 0..MaxTrendSales} :
        \A i \in 1..Len(vs) - 1 : vs[i].sold_at >= vs[i + 1].sold_at}

\* function pct(curr, prev), on exact quotients
pct(curr, prev) ==
  IF prev.num = 0 THEN (IF curr.num > 0 THEN Whole(100) ELSE Whole(0))
  ELSE [num |-> (curr.num * prev.den - prev.num * curr.den) * 100,
        den |-> curr.den * prev.num]

\* q < k for a quotient q with a positive denominator
Below(q, k) == q.num < k * q.den

\* Math.ceil(a / b), b > 0
Ceil(a, b) == IF a % b = 0 THEN a \div b ELSE (a \div b) + 1

start7d(now) == startOfDay(subDays(now, 7))
start14d(now) == startOfDay(subDays(now, 14))

\* the body of Object.entries(byEvent).forEach up to the classification:
\* the windows, the drops, riskScore and reasons of one event group
RiskScored(id, evSales, now) ==
  LET event_date == evSales[1].events.event_date
      revenue == RevenueOf(evSales)
      In7d(x) == x.sold_at >= start7d(now)
      InPrev(x) == x.sold_at >= start14d(now) /\ x.sold_at < start7d(now)
      s7d == SelectSeq(evSales, In7d)
      sPrev == SelectSeq(evSales, InPrev)
      units_7d == TicketsOf(s7d)
      units_prev7d == TicketsOf(sPrev)
      avg_price_7d == AvgPrice(RevenueOf(s7d), units_7d)
      avg_price_prev7d == AvgPrice(RevenueOf(sPrev), units_prev7d)
      salesDrop == IF units_prev7d > 0 THEN pct(Whole(units_7d), Whole(units_prev7d))
                   ELSE Whole(0)
      priceDrop == IF avg_price_prev7d.num > 0 THEN pct(avg_price_7d, avg_price_prev7d)
                   ELSE Whole(0)
      r1 == IF Below(salesDrop, 0 - 30) /\ units_prev7d > 0
              THEN [reasons |-> <<"sales_down">>, score |-> 3]
            ELSE IF Below(salesDrop, 0 - 15) /\ units_prev7d > 0
              THEN [reasons |-> <<"sales_slowing">>, score |-> 1]
            ELSE [reasons |-> <<>>, score |-> 0]
      r2 == IF Below(priceDrop, 0 - 10) /\ avg_price_prev7d.num > 0
              THEN [reasons |-> Append(r1.reasons, "price_dropping"), score |-> r1.score + 2]
            ELSE r1
      r3 == IF units_7d = 0 /\ revenue > 0
              THEN [reasons |-> Append(r2.reasons, "stalled"), score |-> r2.score + 2]
            ELSE r2
      daysToEvent == IF event_date = <<>> THEN 0
                     ELSE Ceil(event_date[1] - now, TicksPerDay)
      r4 == IF event_date # <<>> /\ daysToEvent > 0 /\ daysToEvent <= 14 /\ units_7d < 2
              THEN [reasons |-> Append(r3.reasons, "event_soon"), score |-> r3.score + 3]
            ELSE r3
  IN [id |-> id, name |-> NameOf(evSales[1]), event_date |-> event_date,
      revenue |-> revenue, units_7d |-> units_7d, units_prev7d |-> units_prev7d,
      avg_price_7d |-> avg_price_7d, avg_price_prev7d |-> avg_price_prev7d,
      reasons |-> r4.reasons, riskScore |-> r4.score]

\* if (riskScore >= 4) ... else if (riskScore >= 2) ... else if (riskScore >= 1) ... else
RiskClassCoarse(riskScore) ==
  IF riskScore >= 4 THEN "high"
  ELSE IF riskScore >= 3 THEN "medium"
  ELSE IF riskScore >= 1 THEN "watch"
  ELSE "safe"

RiskClass(riskScore) ==
  IF riskScore >= 4 THEN "high"
  ELSE IF riskScore >= 2 THEN "medium"
  ELSE IF riskScore >= 1 THEN "watch"
  ELSE "safe"

RiskOrder(risk) == CASE risk = "high" -> 0 [] risk = "medium" -> 1 [] OTHER -> 2

\* riskGames.sort((a, b) => order[a.risk] - order[b.risk]): stable, ascending
RECURSIVE SortByRisk(_)
SortByRisk(gs) ==
  IF gs = <<>> THEN <<>>
  ELSE LET sorted == SortByRisk(SubSeq(gs, 1, Len(gs) - 1))
           g == gs[Len(gs)]
           after == {j \in 1..Len(sorted) : RiskOrder(sorted[j].risk) > RiskOrder(g.risk)}
           at == IF after = {} THEN Len(sorted) + 1
                 ELSE CHOOSE j \in after : \A k \in after : j <= k
       IN SubSeq(sorted, 1, at - 1) \o <<g>> \o SubSeq(sorted, at, Len(sorted))

\* the useMemo of RiskPage: scored is the trace of the loop's locals per group
RiskResult(ss, now) ==
  LET ids == GroupIds(ss)
      scored == [i \in 1..Len(ids) |-> RiskScored(ids[i], GroupOf(ss, ids[i]), now)]
      Flagged(g) == RiskClass(g.riskScore) # "safe"
      Safe(g) == RiskClass(g.riskScore) = "safe"
      flagged == SelectSeq(scored, Flagged)
      safe == SelectSeq(scored, Safe)
      riskGames == [i \in 1..Len(flagged) |->
                      [id |-> flagged[i].id, name |-> flagged[i].name,
                       event_date |-> flagged[i].event_date,
                       risk |-> RiskClass(flagged[i].riskScore),
                       reasons |-> flagged[i].reasons,
                       units_7d |-> flagged[i].units_7d,
                       units_prev7d |-> flagged[i].units_prev7d,
                       avg_price_7d |-> flagged[i].avg_price_7d,
                       avg_price_prev7d |-> flagged[i].avg_price_prev7d,
                       revenue |-> flagged[i].revenue]]
      safeKeyed == [i \in 1..Len(safe) |->
                      [key |-> Whole(safe[i].revenue),
                       row |-> [name |-> safe[i].name, revenue |-> safe[i].revenue]]]
      safeSorted == SortDesc(safeKeyed)
  IN [now |-> now, scored |-> scored, riskGames |-> SortByRisk(riskGames),
      safeGames |-> [i \in 1..Len(safeSorted) |-> safeSorted[i].row]]

RiskCompute == \E now \in NowTimes : AggCompute("risk", <<RiskResult(aggSales, now)>>)

\* ---- time series and period-over-period figures ----
DaysPerYear == 365
IndexChartDays == 30

\* the rows of the query, in its order (sold_at descending)
SeriesRows(vs) == [i \in 1..Len(vs) |->
                     [id |-> i, sold_at |-> vs[i].sold_at, ticket_price |-> 100,
                      quantity |-> vs[i].quantity, platform |-> LFT, event_id |-> "e1",
                      events |-> RiskEvent("e1")]]

SeriesInputs ==
  LET SeriesSaleValues ==
        [sold_at : {At(0, 0), At(2, 1), At(5, 0), At(10, 1), At(DaysPerYear, 1)},
         quantity : {1, 2}]
  IN {vs \in UNION {[1..n -> SeriesSaleValues] : n \in 0..MaxTrendSales} :
        \A i \in 1..Len(vs) - 1 : vs[i].sold_at >= vs[i + 1].sold_at}

\* the calendar day of an instant, and format(d, "dd MMM"): the day and the
\* month without the year
DayOf(t) == t \div TicksPerDay
DayKey(t) == DayOf(t) % DaysPerYear

\* AnalyticsPage
DateRanges == {"7d", "30d", "90d", "all"}
RangeDays(dateRange) ==
  IF dateRange = "7d" THEN 7 ELSE IF dateRange = "30d" THEN 30 ELSE 90

cutoffDate(dateRange, now) == startOfDay(subDays(now, RangeDays(dateRange)))

filtered(allSales, dateRange, now) ==
  IF dateRange = "all" THEN allSales
  ELSE LET Keep(x) == x.sold_at >= cutoffDate(dateRange, now)
       IN SelectSeq(allSales, Keep)

prevFiltered(allSales, dateRange, now) ==
  IF dateRange = "all" THEN <<>>
  ELSE LET start == startOfDay(subDays(now, RangeDays(dateRange) * 2))
           Keep(x) == x.sold_at >= start /\ x.sold_at < cutoffDate(dateRange, now)
       IN SelectSeq(allSales, Keep)

\* const trend = (curr, prev) => prev > 0 ? ((curr - prev) / prev) * 100 : 0
trend(curr, prev) ==
  IF prev > 0 THEN [num |-> (curr - prev) * 100, den |-> prev] ELSE Whole(0)

AnalyticsKpi(allSales, dateRange, now) ==
  LET f == filtered(allSales, dateRange, now)
      pf == prevFiltered(allSales, dateRange, now)
  IN [now |-> now, dateRange |-> dateRange,
      totalRevenue |-> RevenueOf(f), prevRevenue |-> RevenueOf(pf),
      totalUnits |-> TicketsOf(f), prevUnits |-> TicketsOf(pf),
      revenueTrend |-> trend(RevenueOf(f), RevenueOf(pf)),
      unitsTrend |-> trend(TicketsOf(f), TicketsOf(pf))]

\* keys of the byDay object, in insertion order
RECURSIVE DayKeys(_)
DayKeys(ss) ==
  IF ss = <<>> THEN <<>>
  ELSE LET rest == DayKeys(SubSeq(ss, 1, Len(ss) - 1))
           k == DayKey(ss[Len(ss)].sold_at)
       IN IF \E i \in 1..Len(rest) : rest[i] = k THEN rest ELSE Append(rest, k)

timeSeriesData(f) ==
  LET ks == DayKeys(f)
  IN [i \in 1..Len(ks) |->
        LET OnDay(x) == DayKey(x.sold_at) = ks[i]
        IN [date |-> ks[i], revenue |-> RevenueOf(SelectSeq(f, OnDay)),
            quantity |-> TicketsOf(SelectSeq(f, OnDay))]]

\* Index fetchData: revenue chart, last 30 days
IndexChart(sales, now) ==
  [k \in 1..IndexChartDays |->
     LET day == startOfDay(subDays(now, IndexChartDays - k))
         OnDay(x) == startOfDay(x.sold_at) = day
         daySales == SelectSeq(sales, OnDay)
     IN [date |-> DayKey(day), revenue |-> RevenueOf(daySales), count |-> Len(daySales)]]

\* VelocityPage: one entry per day of eachDayOfInterval({start, end: now}),
\* the units of the top events per day (all events while there are at most 6)
dayBtns == {7, 14, 30, 60, 90}

VelocityChart(sales, days, now) ==
  LET start == startOfDay(subDays(now, days))
      InRange(x) == x.sold_at >= start
      inRange == SelectSeq(sales, InRange)
      range == [k \in 1..(DayOf(now) - DayOf(start) + 1) |->
                  start + (k - 1) * TicksPerDay]
  IN [k \in 1..Len(range) |->
        LET OnDay(x) == DayKey(x.sold_at) = DayKey(range[k])
        IN [date |-> DayKey(range[k]), units |-> TicketsOf(SelectSeq(inRange, OnDay))]]

\* MarketPage: KPI "Units Sold (7d)" against the previous 7 days
MarketKpi(allSales, now) ==
  LET In7d(x) == x.sold_at >= start7d(now)
      InPrev(x) == x.sold_at >= start14d(now) /\ x.sold_at < start7d(now)
      units_7d_total == TicketsOf(SelectSeq(allSales, In7d))
      units_prev7d_total == TicketsOf(SelectSeq(allSales, InPrev))
  IN [now |-> now, units_7d_total |-> units_7d_total,
      units_prev7d_total |-> units_prev7d_total,
      trend |-> pct(Whole(units_7d_total), Whole(units_prev7d_total))]

SeriesAnalyticsKpi ==
  \E now \in NowTimes, r \in DateRanges :
     AggCompute("analyticsKpi", <<AnalyticsKpi(aggSales, r, now)>>)

SeriesMarketKpi ==
  \E now \in NowTimes : AggCompute("marketKpi", <<MarketKpi(aggSales, now)>>)

SeriesAnalytics ==
  \E now \in NowTimes, r \in DateRanges :
     AggCompute("analyticsSeries",
                <<[now |-> now, dateRange |-> r,
                   series |-> timeSeriesData(filtered(aggSales, r, now))]>>)

SeriesIndex ==
  \E now \in NowTimes :
     AggCompute("indexChart", <<[now |-> now, series |-> IndexChart(aggSales, now)]>>)

SeriesVelocity ==
  \E now \in NowTimes, d \in dayBtns :
     AggCompute("velocityChart",
                <<[now |-> now, days |-> d, series |-> VelocityChart(aggSales, d, now)]>>)

\* ---- AddSalePage: manual entry and CSV bulk import ----
\* a cell or form field is the sequence of its characters
\* the index after the run of digits that starts at i
RECURSIVE DigitsEnd(_, _)
DigitsEnd(cell, i) ==
  IF i <= Len(cell) /\ cell[i] \in {"0", "1", "2", "3", "4", "5", "6", "7", "8", "9"}
    THEN DigitsEnd(cell, i + 1)
    ELSE i

\* the value of the digits cell[i..j-1]
RECURSIVE DigitsVal(_, _, _)
DigitsVal(cell, i, j) ==
  LET c == cell[j - 1]
      DigitVal ==
        CASE c = "0" -> 0 [] c = "1" -> 1 [] c = "2" -> 2 [] c = "3" -> 3 [] c = "4" -> 4
          [] c = "5" -> 5 [] c = "6" -> 6 [] c = "7" -> 7 [] c = "8" -> 8 [] OTHER -> 9
  IN IF j <= i THEN 0 ELSE DigitsVal(cell, i, j - 1) * 10 + DigitVal

RECURSIVE Pow10(_)
Pow10(n) == IF n = 0 THEN 1 ELSE 10 * Pow10(n - 1)

NaN == [nan |-> TRUE, num |-> 0, den |-> 1]
Num(n, d) == [nan |-> FALSE, num |-> n, den |-> d]

SignLen(cell) == IF cell # <<>> /\ cell[1] \in {"-", "+"} THEN 1 ELSE 0
SignOf(cell) == IF cell # <<>> /\ cell[1] = "-" THEN 0 - 1 ELSE 1

\* parseInt(cell): an optional sign and the leading digits, NaN without a digit
parseInt(cell) ==
  LET from == SignLen(cell) + 1
      to == DigitsEnd(cell, from)
  IN IF to = from THEN NaN ELSE Num(SignOf(cell) * DigitsVal(cell, from, to), 1)

\* the end of the longest decimal literal at the start of the cell, and its value
DecimalEnd(cell) ==
  LET from == SignLen(cell) + 1
      dot == DigitsEnd(cell, from)
      frac == IF dot <= Len(cell) /\ cell[dot] = "." THEN DigitsEnd(cell, dot + 1) ELSE dot
  IN IF frac = dot + 1 /\ dot > from THEN frac
     ELSE IF frac = dot + 1 THEN from
     ELSE frac

\* parseFloat(cell): an optional sign, digits and an optional fraction
parseFloat(cell) ==
  LET from == SignLen(cell) + 1
      dot == DigitsEnd(cell, from)
      to == DecimalEnd(cell)
      fracLen == IF to > dot + 1 THEN to - dot - 1 ELSE 0
  IN IF to = from THEN NaN
     ELSE Num(SignOf(cell) * (DigitsVal(cell, from, dot) * Pow10(fracLen)
                              + DigitsVal(cell, dot + 1, dot + 1 + fracLen)),
              Pow10(fracLen))

\* Number(cell) of z.coerce.number(): the whole field is a decimal literal ("" is 0)
Number(cell) ==
  IF cell = <<>> THEN Num(0, 1)
  ELSE IF DecimalEnd(cell) = Len(cell) + 1 THEN parseFloat(cell)
  ELSE NaN

\* x || dflt for a parsed number: NaN and 0 are falsy
OrElse(x, dflt) == IF x.nan \/ x.num = 0 THEN Num(dflt, 1) ELSE x

\* String.prototype.toLowerCase on the names of the model
toLowerCase(name) ==
  LET LowerWord(w) ==
        CASE w = "Liverpool" -> "liverpool" [] w = "Arsenal" -> "arsenal"
          [] w = "Nowhere" -> "nowhere" [] OTHER -> w
  IN [i \in 1..Len(name) |-> LowerWord(name[i])]

\* new Date(dateStr) is a valid date
ValidDates == {"2025-04-05 19:30"}

\* the pasted CSVs after parseCsv: the header, then up to MaxCsvRows rows, each
\* the good row or a row that differs from it in one cell
CsvFiles ==
  LET BaseRow == [eventName |-> <<"Liverpool", "vs", "Arsenal">>, quantity |-> <<"2">>,
                  price |-> <<"1", "2", ".", "5">>, platform |-> "LFT",
                  dateStr |-> "2025-04-05 19:30"]
      Header == [eventName |-> <<"Event", "Name">>, quantity |-> <<"Q">>,
                 price |-> <<"P">>, platform |-> "Platform", dateStr |-> "Date"]
      CsvRowSamples ==
        {BaseRow}
          \cup {[BaseRow EXCEPT !.eventName = v] :
                  v \in {<<"liverpool", "vs", "arsenal">>, <<"Nowhere", "vs", "Arsenal">>}}
          \cup {[BaseRow EXCEPT !.quantity = v] : v \in {<<"0">>, <<"-", "5">>, <<"x">>, <<>>}}
          \cup {[BaseRow EXCEPT !.price = v] : v \in {<<"-", "3">>, <<"x">>, <<>>}}
          \cup {[BaseRow EXCEPT !.platform = v] : v \in {LFT, "Tixstock", "Fanpass", ""}}
          \cup {[BaseRow EXCEPT !.dateStr = v] : v \in {"", "soon"}}
  IN {<<Header>> \o rows : rows \in UNION {[1..n -> CsvRowSamples] : n \in 1..MaxCsvRows}}

\* events.find((e) => e.name.toLowerCase() === eventName?.toLowerCase())
FindEvent(eventName) ==
  {e \in addEvents : toLowerCase(EventRow(e).name) = toLowerCase(eventName)}

\* platform === "LFT" || platform === "LiveFootballTickets" ? ... : "Tixstock"
Plt(platform) == IF platform = "LFT" \/ platform = LFT THEN LFT ELSE "Tixstock"

\* the argument of insert() for a CSV row; src is the row it was built from
CsvInsert(row, ev) ==
  [event_id |-> ev, quantity |-> OrElse(parseInt(row.quantity), 1),
   ticket_price |-> OrElse(parseFloat(row.price), 0), platform |-> Plt(row.platform),
   via |-> "csv", src |-> row]

\* the for loop of importCsv from data row i on: unmatched rows are skipped,
\* a matched row evaluates its insert (new Date(dateStr).toISOString() throws
\* on an invalid date) and awaits it; after the last row the toast is shown
RECURSIVE ImportFrom(_, _, _)
ImportFrom(rows, i, success) ==
  IF i > Len(rows)
    THEN /\ addToasts' = Append(addToasts, [title |-> "Import complete",
                                            counts |-> <<success>>, rows |-> rows])
         /\ csvParsed' = <<>>
         /\ importingCsv' = FALSE
         /\ importPc' = [state |-> "idle", i |-> 0, success |-> 0, insert |-> <<>>]
  ELSE IF FindEvent(rows[i].eventName) = {}
    THEN ImportFrom(rows, i + 1, success)
  ELSE IF rows[i].dateStr # "" /\ rows[i].dateStr \notin ValidDates
    THEN /\ importPc' = [state |-> "thrown", i |-> i, success |-> success, insert |-> <<>>]
         /\ importingCsv' = TRUE
         /\ UNCHANGED <<addToasts, csvParsed>>
  ELSE /\ importPc' = [state |-> "insert", i |-> i, success |-> success,
                       insert |-> <<CsvInsert(rows[i],
                                              CHOOSE e \in FindEvent(rows[i].eventName) : TRUE)>>]
       /\ importingCsv' = TRUE
       /\ UNCHANGED <<addToasts, csvParsed>>

\* useEffect: fetchEvents
AddMount ==
  /\ ~addMounted
  /\ addMounted' = TRUE
  /\ UNCHANGED <<viewVars, dbVars, hookVars, catVars, healthVars, aggVars, addEvents, loadingEvents,
                 csvParsed, importingCsv, importPc, submitPc, addToasts, addStored, addRuns>>

\* fetchEvents: setEvents(data ?? []); setLoadingEvents(false)
AddEventsResponse ==
  /\ addMounted /\ loadingEvents
  /\ \E data \in {EventIds, {}} : addEvents' = data
  /\ loadingEvents' = FALSE
  /\ UNCHANGED <<viewVars, dbVars, hookVars, catVars, healthVars, aggVars, addMounted,
                 csvParsed, importingCsv, importPc, submitPc, addToasts, addStored, addRuns>>

\* parseCsv (Preview): the header and the data rows of the pasted text
AddParseCsv ==
  /\ addMounted
  /\ csvParsed = <<>>
  /\ addRuns < MaxAddRuns
  /\ \E file \in CsvFiles : csvParsed' = file
  /\ UNCHANGED <<viewVars, dbVars, hookVars, catVars, healthVars, aggVars, addMounted, addEvents,
                 loadingEvents, importingCsv, importPc, submitPc, addToasts, addStored,
                 addRuns>>

\* importCsv, up to its first await
AddImportCsv ==
  /\ csvParsed # <<>>
  /\ ~importingCsv
  /\ addRuns' = addRuns + 1
  /\ ImportFrom(Tail(csvParsed), 1, 0)
  /\ UNCHANGED <<viewVars, dbVars, hookVars, catVars, healthVars, aggVars, addMounted, addEvents,
                 loadingEvents, submitPc, addStored>>

\* the awaited insert returns; its error is not looked at; success++
AddInsertReturns ==
  /\ importPc.state = "insert"
  /\ \E ok \in BOOLEAN :
        addStored' = IF ok THEN addStored \o importPc.insert ELSE addStored
  /\ ImportFrom(Tail(csvParsed), importPc.i + 1, importPc.success + 1)
  /\ UNCHANGED <<viewVars, dbVars, hookVars, catVars, healthVars, aggVars, addMounted, addEvents,
                 loadingEvents, submitPc, addRuns>>

\* the manual entry form: the fields handed to handleSubmit
FormInputs ==
  [event_id : {"e1", ""},
   quantity : {<<"2">>, <<"0">>, <<"-", "5">>, <<"1", ".", "5">>, <<"x">>, <<>>},
   ticket_price : {<<"1", "2", ".", "5">>, <<"0">>, <<"-", "3">>, <<"x">>},
   platform : {LFT, "Tixstock", ""}]

\* saleSchema
saleSchema(data) ==
  LET quantity == Number(data.quantity)
      ticket_price == Number(data.ticket_price)
  IN /\ data.event_id # ""
     /\ ~quantity.nan /\ quantity.den = 1 /\ quantity.num >= 1
     /\ ~ticket_price.nan /\ ticket_price.num * 100 >= ticket_price.den
     /\ data.platform \in {LFT, "Tixstock"}

\* handleSubmit(onSubmit): onSubmit runs only with data that passes saleSchema
AddSubmit ==
  /\ addMounted
  /\ submitPc = <<>>
  /\ addRuns < MaxAddRuns
  /\ \E data \in FormInputs :
        /\ saleSchema(data)
        /\ submitPc' = <<[event_id |-> data.event_id, quantity |-> Number(data.quantity),
                          ticket_price |-> Number(data.ticket_price),
                          platform |-> data.platform, via |-> "form", src |-> data]>>
  /\ addRuns' = addRuns + 1
  /\ UNCHANGED <<viewVars, dbVars, hookVars, catVars, healthVars, aggVars, addMounted, addEvents,
                 loadingEvents, csvParsed, importingCsv, importPc, addToasts, addStored>>

\* onSubmit after its insert: the toast, setSubmitting(false)
AddSubmitReturns ==
  /\ submitPc # <<>>
  /\ \E ok \in BOOLEAN :
        /\ addStored' = IF ok THEN addStored \o submitPc ELSE addStored
        /\ addToasts' = Append(addToasts,
                               [title |-> IF ok THEN "Sale added!" ELSE "Error",
                                counts |-> <<>>, rows |-> <<>>])
  /\ submitPc' = <<>>
  /\ UNCHANGED <<viewVars, dbVars, hookVars, catVars, healthVars, aggVars, addMounted, addEvents,
                 loadingEvents, csvParsed, importingCsv, importPc, addRuns>>

\* ---- CSV export (CategorySalesPage) and the sale figures of AnalyticsPage ----
\* a text is the sequence of its characters; a word without a separator
\* character stands for its letters

\* the views exported and enriched: up to MaxViewRows sales
ViewInputs ==
  LET Values == [name : {<<"Liverpool", " ", "vs", " ", "Arsenal">>, <<"Cup", ",", " ", "Final">>},
                 section : {<<>>, <<"L4">>, <<"L4", " ">>, <<"\"", "L4", "\"">>},
                 ticket_price : {0, 5, 20},
                 quantity : {1, 12},
                 platform : {LFT, "Tixstock"}]
      Row(v, i) == [id |-> i, sold_at |-> 1, ticket_price |-> v.ticket_price,
                    quantity |-> v.quantity, platform |-> v.platform,
                    section |-> v.section, event_id |-> "e1",
                    events |-> [present |-> TRUE, name |-> v.name]]
  IN {[i \in 1..Len(vs) |-> Row(vs[i], i)] :
        vs \in UNION {[1..n -> Values] : n \in 0..MaxViewRows}}

\* exportCSV: the header and one line per row of filteredSales, cells joined
\* by "," and lines by "\n" (Array.prototype.join; a number cell is String(n),
\* the total is toFixed(2))
exportCSV(filteredSales) ==
  LET RECURSIVE NumText(_)
      NumText(n) ==
        LET d == <<"0", "1", "2", "3", "4", "5", "6", "7", "8", "9">>[(n % 10) + 1]
        IN IF n < 10 THEN <<d>> ELSE Append(NumText(n \div 10), d)
      RECURSIVE join(_, _)
      join(cells, sep) ==
        IF cells = <<>> THEN <<>>
        ELSE IF Len(cells) = 1 THEN cells[1]
        ELSE cells[1] \o <<sep>> \o join(Tail(cells), sep)
      header == <<<<"#">>, <<"Platform">>, <<"Event">>, <<"Section">>, <<"Qty">>,
                  <<"Price">>, <<"Total">>, <<"Date">>>>
      Line(i) ==
        LET x == filteredSales[i]
        IN <<NumText(i), <<x.platform>>, x.events.name, x.section, NumText(x.quantity),
             NumText(x.ticket_price),
             NumText(x.ticket_price * x.quantity) \o <<".", "0", "0">>,
             <<"2025-04-05", " ", "19:30">>>>
      rows == <<header>> \o [i \in 1..Len(filteredSales) |-> Line(i)]
  IN join([r \in 1..Len(rows) |-> join(rows[r], ",")], "\n")

\* parseCsv: csvText.trim().split("\n").filter((l) => l.trim())
\*             .map((l) => l.split(",").map((c) => c.trim().replace(/^"|"$/g, "")))
parseCsv(csvText) ==
  LET split(text, sep) ==
        LET IsSep(i) == text[i] = sep
            cuts == SelectSeq([i \in 1..Len(text) |-> i], IsSep)
            from(k) == IF k = 1 THEN 1 ELSE cuts[k - 1] + 1
            to(k) == IF k = Len(cuts) + 1 THEN Len(text) ELSE cuts[k] - 1
        IN [k \in 1..Len(cuts) + 1 |-> SubSeq(text, from(k), to(k))]
      trim(text) ==
        LET ink == {i \in 1..Len(text) : text[i] \notin {" ", "\n"}}
            first == CHOOSE i \in ink : \A j \in ink : i <= j
            last == CHOOSE i \in ink : \A j \in ink : i >= j
        IN IF ink = {} THEN <<>> ELSE SubSeq(text, first, last)
      NotBlank(l) == trim(l) # <<>>
      lines == SelectSeq(split(trim(csvText), "\n"), NotBlank)
      Unquote(c) ==
        LET a == IF c # <<>> /\ c[1] = "\"" THEN Tail(c) ELSE c
        IN IF a # <<>> /\ a[Len(a)] = "\"" THEN SubSeq(a, 1, Len(a) - 1) ELSE a
      Cells(l) == LET cs == split(l, ",") IN [k \in 1..Len(cs) |-> Unquote(trim(cs[k]))]
  IN [r \in 1..Len(lines) |-> Cells(lines[r])]

\* Export CSV, and the exported text pasted into the CSV parser
ExportCsv == AggCompute("csv", parseCsv(exportCSV(aggSales)))

\* the quotient n / d (d > 0) in lowest terms
Quot(n, d) ==
  LET RECURSIVE GCD(_, _)
      GCD(a, b) == IF b = 0 THEN a ELSE GCD(b, a % b)
      g == GCD(IF n < 0 THEN 0 - n ELSE n, d)
  IN [num |-> n \div g, den |-> d \div g]

\* mockFees with a fee that does not depend on the price
mockFeesFlat(platform, price) ==
  IF platform = LFT THEN [num |-> 35, den |-> 1000] ELSE [num |-> 45, den |-> 1000]

\* function mockCostFactor(platform), function mockFees(platform, price)
mockCostFactor(platform) ==
  IF platform = LFT THEN [num |-> 62, den |-> 100] ELSE [num |-> 68, den |-> 100]

mockFees(platform, price) ==
  IF platform = LFT THEN [num |-> price * 35, den |-> 1000]
  ELSE [num |-> price * 45, den |-> 1000]

\* fetchData: raw.map((s) => ({...s, revenue, gross_profit, margin_pct, ...})),
\* on exact quotients
Enriched(raw) ==
  LET One(x) ==
        LET rev == x.ticket_price * x.quantity
            cf == mockCostFactor(x.platform)
            fee == mockFees(x.platform, x.ticket_price)
            cost == Quot(x.ticket_price * cf.num * x.quantity, cf.den)
            fees == Quot(fee.num * x.quantity, fee.den)
            profit == Quot(rev * cost.den * fees.den - cost.num * fees.den
                             - fees.num * cost.den,
                           cost.den * fees.den)
            margin == IF rev > 0 THEN Quot(profit.num * 100, profit.den * rev)
                      ELSE Whole(0)
        IN [id |-> x.id, ticket_price |-> x.ticket_price, quantity |-> x.quantity,
            platform |-> x.platform, revenue |-> rev, gross_profit |-> profit,
            margin_pct |-> margin]
  IN [i \in 1..Len(raw) |-> One(raw[i])]

\* AnalyticsPage fetchData after its await: setAllSales(enriched)
EnrichSales == AggCompute("enriched", Enriched(aggSales))

\* ---- SalesPage: the filtered, sorted and paginated sales table ----
PAGE_SIZE == 25

\* what the sales query can return, in its order (sold_at descending): the
\* store holds n rows, some sold at the same instant, on two platforms
TableSnapshots ==
  LET Row(i, n) == [id |-> i, sold_at |-> (n - i) \div 2, ticket_price |-> 50 + 25 * (i % 3),
                    quantity |-> 1 + (i % 2),
                    platform |-> IF i % 3 = 0 THEN "Tixstock" ELSE LFT]
  IN {[i \in 1..n |-> Row(i, n)] : n \in {0, 3, PAGE_SIZE + 1, 2 * PAGE_SIZE + 1}}

\* sortKey === "sold_at" ? new Date(a[sortKey]).getTime() : Number(a[sortKey]);
\* Number of a platform name is NaN
SortVal(a, key) ==
  CASE key = "sold_at" -> Num(a.sold_at, 1)
    [] key = "ticket_price" -> Num(a.ticket_price, 1)
    [] key = "quantity" -> Num(a.quantity, 1)
    [] OTHER -> NaN

\* const filtered = useMemo(...): the platform filter, then Array.prototype.sort
\* (stable) with the comparator sortDir === "asc" ? aVal - bVal : bVal - aVal;
\* a comparator result of NaN counts as 0
SalesFiltered(sales, platform, key, dir) ==
  LET Keep(x) == platform = "all" \/ x.platform = platform
      result == SelectSeq(sales, Keep)
      n == Len(result)
      Cmp(a, b) ==
        LET aVal == SortVal(a, key)
            bVal == SortVal(b, key)
        IN IF aVal.nan \/ bVal.nan THEN 0
           ELSE IF dir = "asc" THEN aVal.num - bVal.num
           ELSE bVal.num - aVal.num
      rank == [i \in 1..n |->
                 1 + Cardinality({j \in 1..n :
                        \/ Cmp(result[j], result[i]) < 0
                        \/ Cmp(result[j], result[i]) = 0 /\ j < i})]
  IN [k \in 1..n |-> result[CHOOSE i \in 1..n : rank[i] = k]]

\* Math.ceil(filtered.length / PAGE_SIZE)
totalPages == Ceil(Len(SalesFiltered(tblSales, tblPlatform, sortKey, sortDir)), PAGE_SIZE)

\* fetchSales (on mount and on every postgres_changes notification) after its
\* await: if (!error) setSales(data ?? [])
TblFetchSales ==
  /\ \E data \in TableSnapshots : tblSales' = data
  /\ UNCHANGED <<dbVars, hookVars, catVars, healthVars, aggVars, addVars, authVars,
                 tblPlatform, sortKey, sortDir, page>>

\* onValueChange={(v) => { setPlatform(v); setPage(1); }}
TblSetPlatform ==
  /\ \E v \in {"all", LFT, "Tixstock"} \ {tblPlatform} : tblPlatform' = v
  /\ page' = 1
  /\ UNCHANGED <<dbVars, hookVars, catVars, healthVars, aggVars, addVars, authVars,
                 tblSales, sortKey, sortDir>>

\* handleSort(key), from a click on a sortable column header
handleSort ==
  /\ \E key \in {"sold_at", "ticket_price", "quantity", "platform"} :
        IF sortKey = key
          THEN /\ sortDir' = IF sortDir = "asc" THEN "desc" ELSE "asc"
               /\ sortKey' = sortKey
          ELSE /\ sortKey' = key
               /\ sortDir' = "desc"
  /\ page' = 1
  /\ UNCHANGED <<dbVars, hookVars, catVars, healthVars, aggVars, addVars, authVars,
                 tblSales, tblPlatform>>

\* Prev: setPage((p) => Math.max(1, p - 1)), disabled={page === 1}
TblPrev ==
  /\ totalPages > 1
  /\ page # 1
  /\ page' = Max(1, page - 1)
  /\ UNCHANGED <<dbVars, hookVars, catVars, healthVars, aggVars, addVars, authVars,
                 tblSales, tblPlatform, sortKey, sortDir>>

\* Next: setPage((p) => Math.min(totalPages, p + 1)), disabled={page === totalPages}
TblNext ==
  /\ totalPages > 1
  /\ page # totalPages
  /\ page' = IF totalPages <= page + 1 THEN totalPages ELSE page + 1
  /\ UNCHANGED <<dbVars, hookVars, catVars, healthVars, aggVars, addVars, authVars,
                 tblSales, tblPlatform, sortKey, sortDir>>

TblInit ==
  /\ tblSales = <<>>
  /\ tblPlatform = "all"
  /\ sortKey = "sold_at"
  /\ sortDir = "desc"
  /\ page = 1

\* ---- AuthGuard ----
\* useEffect: onAuthStateChange(...) subscribes, getSession() is called
AuthMount ==
  /\ ~authMounted
  /\ authMounted' = TRUE
  /\ authGet' = [state |-> "called", session |-> Null]
  /\ UNCHANGED <<dbVars, hookVars, catVars, healthVars, aggVars, addVars, tblVars,
                 authStore, authEvents, session, authLoading, authLast, authChanges>>

\* getSession() reads the client's current session; its promise resolves later
AuthGetSessionReads ==
  /\ authGet.state = "called"
  /\ authGet' = [state |-> "read", session |-> authStore]
  /\ UNCHANGED <<dbVars, hookVars, catVars, healthVars, aggVars, addVars, tblVars,
                 authStore, authEvents, authMounted, session, authLoading, authLast,
                 authChanges>>

\* .then(({ data: { session } }) => { setSession(session); setLoading(false); })
AuthGetSessionThen ==
  /\ authGet.state = "read"
  /\ session' = authGet.session
  /\ authLoading' = FALSE
  /\ authGet' = [state |-> "done", session |-> Null]
  /\ UNCHANGED <<dbVars, hookVars, catVars, healthVars, aggVars, addVars, tblVars,
                 authStore, authEvents, authMounted, authLast, authChanges>>

\* the user signs in or the token is refreshed (here or in another tab): the
\* client holds a new session and announces it to its subscribers
AuthSignIn ==
  /\ authChanges < MaxAuthChanges
  /\ \E s \in {"s1", "s2"} \ {authStore} :
        /\ authStore' = s
        /\ authEvents' = IF authMounted THEN Append(authEvents, s) ELSE authEvents
  /\ authChanges' = authChanges + 1
  /\ UNCHANGED <<dbVars, hookVars, catVars, healthVars, aggVars, addVars, tblVars,
                 authGet, authMounted, session, authLoading, authLast>>

\* the user signs out or the session expires
AuthSignOut ==
  /\ authChanges < MaxAuthChanges
  /\ authStore # Null
  /\ authStore' = Null
  /\ authEvents' = IF authMounted THEN Append(authEvents, Null) ELSE authEvents
  /\ authChanges' = authChanges + 1
  /\ UNCHANGED <<dbVars, hookVars, catVars, healthVars, aggVars, addVars, tblVars,
                 authGet, authMounted, session, authLoading, authLast>>

\* onAuthStateChange((_event, session) => { setSession(session); setLoading(false); })
AuthStateChange ==
  /\ authEvents # <<>>
  /\ session' = Head(authEvents)
  /\ authLoading' = FALSE
  /\ authLast' = <<Head(authEvents)>>
  /\ authEvents' = Tail(authEvents)
  /\ UNCHANGED <<dbVars, hookVars, catVars, healthVars, aggVars, addVars, tblVars,
                 authStore, authGet, authMounted, authChanges>>

\* what AuthGuard renders
AuthRender ==
  IF authLoading THEN "loading" ELSE IF session = Null THEN "AuthPage" ELSE "children"

AuthInit ==
  /\ authStore = Null
  /\ authEvents = <<>>
  /\ authGet = [state |-> "idle", session |-> Null]
  /\ authMounted = FALSE
  /\ session = Null
  /\ authLoading = TRUE
  /\ authLast = <<>>
  /\ authChanges = 0

AddInit ==
  /\ addMounted = FALSE
  /\ addEvents = {}
  /\ loadingEvents = TRUE
  /\ csvParsed = <<>>
  /\ importingCsv = FALSE
  /\ importPc = [state |-> "idle", i |-> 0, success |-> 0, insert |-> <<>>]
  /\ submitPc = <<>>
  /\ addToasts = <<>>
  /\ addStored = <<>>
  /\ addRuns = 0

HealthInit ==
  /\ dbSvcStatus = "ok"
  /\ dbLogs = 0
  /\ mounted = FALSE
  /\ health = [db |-> "pending", auth |-> "pending", data |-> "pending"]
  /\ logs = <<>>
  /\ services = <<>>
  /\ running = FALSE
  /\ runPc = "idle"
  /\ runs = 0
  /\ initLogsPending = FALSE
  /\ svcLoads = 0
  /\ healthNotifs = <<>>

HookInit ==
  /\ teamTab = "all"
  /\ hookSales = <<>>
  /\ hookLoading = TRUE
  /\ hookFetches = {}
  /\ hookSeq = 0
  /\ hookLast = [seq |-> 0, result |-> <<>>]

CatInit ==
  /\ catEvents = <<>>
  /\ catSales = <<>>
  /\ catLoading = TRUE
  /\ catFetches = {}
  /\ catSeq = 0
  /\ catNotifs = 0

Init ==
  /\ dbSales \in SUBSET SaleIds
  /\ dbCats = CategoryIds
  /\ HookInit
  /\ CatInit
  /\ HealthInit
  /\ AddInit
  /\ TblInit
  /\ AuthInit
  /\ aggSales = <<>>
  /\ aggOut = [view |-> "none", rows |-> <<>>]

NextHook ==
  \/ HookMount
  \/ HookRefetch
  \/ HookSetTeamTab
  \/ HookQueryOk
  \/ HookQueryError
  \/ HookComplete
  \/ DbInsertSale
  \/ DbDeleteSale

SpecHook == Init /\ [][NextHook]_vars

NextCat ==
  \/ CatMount
  \/ CatRefresh
  \/ CatPush
  \/ CatCatsOk
  \/ CatCatsError
  \/ CatEventsOk
  \/ CatEventsError
  \/ CatSalesOk
  \/ CatSalesError
  \/ CatDbInsertSale
  \/ CatDbDeleteSale
  \/ DbRenameCategory

SpecCat == Init /\ [][NextCat]_vars

NextHealth ==
  \/ HealthMount
  \/ RunChecksClick
  \/ ProbeDb
  \/ ProbeAuth
  \/ ProbeData
  \/ RunLoadServices
  \/ InitialLogsResponse
  \/ DbServiceChange
  \/ DbInsertLog
  \/ PushServiceHealth
  \/ SvcLoadResponse
  \/ PushHealthLog

NextAgg ==
  \/ AggHeatmap
  \/ AggTopGames
  \/ AggEventStats
  \/ AggEventsPage
  \/ AggIndexPlatform
  \/ AggAnalyticsPlatform
  \/ AggIndexSummary

InitAgg ==
  /\ dbSales = {}
  /\ dbCats = CategoryIds
  /\ HookInit
  /\ CatInit
  /\ HealthInit
  /\ AddInit
  /\ TblInit
  /\ AuthInit
  /\ aggSales \in {AggRows(vs) : vs \in AggInputs}
  /\ aggOut = [view |-> "none", rows |-> <<>>]

SpecAgg == InitAgg /\ [][NextAgg]_vars

NextRisk ==
  \/ RiskCompute

InitRisk ==
  /\ dbSales = {}
  /\ dbCats = CategoryIds
  /\ HookInit
  /\ CatInit
  /\ HealthInit
  /\ AddInit
  /\ TblInit
  /\ AuthInit
  /\ aggSales \in {RiskRows(vs) : vs \in RiskInputs}
  /\ aggOut = [view |-> "none", rows |-> <<>>]

SpecRisk == InitRisk /\ [][NextRisk]_vars

NextSeries ==
  \/ SeriesAnalyticsKpi
  \/ SeriesMarketKpi
  \/ SeriesAnalytics
  \/ SeriesIndex
  \/ SeriesVelocity

InitSeries ==
  /\ dbSales = {}
  /\ dbCats = CategoryIds
  /\ HookInit
  /\ CatInit
  /\ HealthInit
  /\ AddInit
  /\ TblInit
  /\ AuthInit
  /\ aggSales \in {SeriesRows(vs) : vs \in SeriesInputs}
  /\ aggOut = [view |-> "none", rows |-> <<>>]

SpecSeries == InitSeries /\ [][NextSeries]_vars

NextAdd ==
  \/ AddMount
  \/ AddEventsResponse
  \/ AddParseCsv
  \/ AddImportCsv
  \/ AddInsertReturns
  \/ AddSubmit
  \/ AddSubmitReturns

InitAdd == Init /\ dbSales = {}

SpecAdd == InitAdd /\ [][NextAdd]_vars

NextRows ==
  \/ ExportCsv
  \/ EnrichSales

InitRows ==
  /\ dbSales = {}
  /\ dbCats = CategoryIds
  /\ HookInit
  /\ CatInit
  /\ HealthInit
  /\ AddInit
  /\ TblInit
  /\ AuthInit
  /\ aggSales \in ViewInputs
  /\ aggOut = [view |-> "none", rows |-> <<>>]

SpecRows == InitRows /\ [][NextRows]_vars

NextTable ==
  \/ TblFetchSales
  \/ TblSetPlatform
  \/ handleSort
  \/ TblPrev
  \/ TblNext

InitView == Init /\ dbSales = {}

SpecTable == InitView /\ [][NextTable]_vars

NextAuth ==
  \/ AuthMount
  \/ AuthGetSessionReads
  \/ AuthGetSessionThen
  \/ AuthSignIn
  \/ AuthSignOut
  \/ AuthStateChange

SpecAuth == InitView /\ [][NextAuth]_vars

InitHealth == Init /\ dbSales \in {{}, {3}}

\* every await of a run is answered: the probes and the service query settle
SpecHealthLive ==
  /\ InitHealth
  /\ [][NextHealth]_vars
  /\ WF_vars(ProbeDb) /\ WF_vars(ProbeAuth) /\ WF_vars(ProbeData)
  /\ WF_vars(RunLoadServices)

SpecHealth == InitHealth /\ [][NextHealth]_vars

\* ---- claims on useAnalyticsData / RiskPage ----

\* C1: once every started fetch of the view has completed, the displayed
\* snapshot is the result of the latest-started fetch, whatever the order in
\* which the fetches completed (a slower stale response never overwrites a
\* fresher one).
C1_StaleResultDiscarded ==
  (hookSeq > 0 /\ hookFetches = {}) => hookSales = hookLast.result

\* C2: a fetch whose store query failed leaves the displayed snapshot as it
\* was; it does not replace it by an empty one.
C2_FailedFetchKeepsSnapshot ==
  [][\A f \in hookFetches :
        (f.state = "error" /\ hookFetches' = hookFetches \ {f})
          => hookSales' = hookSales]_vars

\* C3: a view that already holds a snapshot keeps displaying it while a fetch
\* is outstanding; it never shows the loading placeholder in its place.
C3_SnapshotVisibleWhileFetching ==
  (hookLast.seq > 0 /\ hookFetches # {}) => RiskContent = "snapshot"

\* ---- claims on CategorySalesPage ----

\* C4: at most one fetch of the view is in flight at any time.
C4_SingleFetchInFlight == Cardinality(catFetches) <= 1

\* C6: a fetch whose category keyword matches no category ends with an empty
\* sales and events snapshot and the view not loading, whatever was displayed.
C6_NoCategoryGivesEmptySnapshot ==
  [][\A f \in catFetches :
        (f.pc = "cats" /\ CatsQuery = {} /\ catFetches' = catFetches \ {f})
          => (catSales' = <<>> /\ catEvents' = <<>> /\ ~catLoading')]_vars

\* C7: in every state each displayed event's revenue, ticket count and sale
\* count are the sums over the displayed sales with that event id (events and
\* sales of one and the same fetch).
C7_SnapshotAtomic ==
  \A i \in 1..Len(catEvents) :
    LET ev == catEvents[i]
        evSales == SalesOfEvent(catSales, ev.id)
    IN /\ ev.revenue = RevenueOf(evSales)
       /\ ev.tickets = TicketsOf(evSales)
       /\ ev.saleCount = Len(evSales)

\* a second fetch has replaced a displayed snapshot by one with sold events
C7_Witness ==
  /\ catSeq >= 2
  /\ catFetches = {}
  /\ catSales # <<>>
  /\ \E i \in 1..Len(catEvents) : catEvents[i].revenue > 0

\* ---- claims on HealthPage ----

\* fetches of the page awaiting the store
HealthFetchesInFlight == svcLoads + (IF initLogsPending THEN 1 ELSE 0)

\* C5: the delivery of a push notification starts a re-fetch from the store and
\* does not itself change the displayed logs or services (no patching from the
\* notification's payload).
C5_PushCausesRefetch ==
  [][(healthNotifs # <<>> /\ healthNotifs' = Tail(healthNotifs))
       => /\ HealthFetchesInFlight' = HealthFetchesInFlight + 1
          /\ logs' = logs
          /\ services' = services]_vars

\* ---- claims on the aggregations ----

RECURSIVE SumRevenue(_)
SumRevenue(rows) ==
  IF rows = <<>> THEN 0 ELSE Head(rows).revenue + SumRevenue(Tail(rows))

RECURSIVE SumTotalRevenue(_)
SumTotalRevenue(rows) ==
  IF rows = <<>> THEN 0 ELSE Head(rows).total_revenue + SumTotalRevenue(Tail(rows))

\* C8: the revenue summed over all entries of a per-event rollup equals the
\* sum of ticketPrice x quantity over all sales of the collection.
C8_RollupConservesRevenue ==
  /\ aggOut.view \in {"bubbles", "games"}
       => SumRevenue(aggOut.rows) = RevenueOf(aggSales)
  /\ aggOut.view = "eventsPage"
       => SumTotalRevenue(aggOut.rows) = RevenueOf(aggSales)

\* C9: the sales without an event id are grouped under one sentinel entry, and
\* that entry is present in the rollup's output with all of them.
C9_UnattachedSalesKept ==
  aggOut.view \in {"eventStats", "eventsPage"}
    => LET un == GroupOf(aggSales, "unknown")
       IN un # <<>>
            => \E j \in 1..Len(aggOut.rows) :
                  /\ aggOut.rows[j].id = "unknown"
                  /\ aggOut.rows[j].sale_count = Len(un)

PlatformsIn(ss) == {ss[i].platform : i \in 1..Len(ss)}

\* C10: the platform split has exactly one entry per platform value occurring
\* in the input, each with the revenue of exactly the sales on that platform.
C10_PlatformSplitPerPlatform ==
  /\ aggOut.view = "indexPlatform"
       => /\ Len(aggOut.rows) = Cardinality(PlatformsIn(aggSales))
          /\ \A p \in PlatformsIn(aggSales) :
                \E j \in 1..Len(aggOut.rows) :
                   /\ aggOut.rows[j].name = p
                   /\ aggOut.rows[j].value = RevenueOf(OnPlatform(aggSales, p))
  /\ aggOut.view = "analyticsPlatform"
       => /\ Len(aggOut.rows) = Cardinality(PlatformsIn(aggSales))
          /\ \A p \in PlatformsIn(aggSales) :
                \E j \in 1..Len(aggOut.rows) :
                   /\ aggOut.rows[j].name = (IF p = LFT THEN "LFT" ELSE p)
                   /\ aggOut.rows[j].revenue = RevenueOf(OnPlatform(aggSales, p))

\* the quotient q is revenue / units when units > 0, and 0 when units = 0
IsAvgOf(q, revenue, units) ==
  /\ q.den > 0
  /\ IF units > 0 THEN q.num * units = revenue * q.den ELSE q.num = 0

\* C11: every average price an aggregation produces equals total revenue
\* divided by total units (tickets) when units > 0, and is 0 when units = 0.
C11_AvgPriceIsRevenuePerUnit ==
  /\ aggOut.view = "bubbles"
       => \A j \in 1..Len(aggOut.rows) :
             LET g == GroupOf(aggSales, aggOut.rows[j].id)
             IN IsAvgOf(aggOut.rows[j].avgPrice, RevenueOf(g), TicketsOf(g))
  /\ aggOut.view \in {"games", "eventStats"}
       => \A j \in 1..Len(aggOut.rows) :
             LET g == GroupOf(aggSales, aggOut.rows[j].id)
             IN IsAvgOf(aggOut.rows[j].avg_price, RevenueOf(g), TicketsOf(g))
  /\ aggOut.view = "indexSummary"
       => IsAvgOf(aggOut.rows[1].avg_price, RevenueOf(aggSales), TicketsOf(aggSales))

\* ---- claims on the risk monitor ----

\* the bucket the claim gives a score
BucketOf(score) ==
  IF score >= 4 THEN "high"
  ELSE IF score \in {2, 3} THEN "medium"
  ELSE IF score = 1 THEN "watch"
  ELSE "healthy"

\* C14: every event group is classified exactly once by its risk score
\* (>= 4 high, 2 or 3 medium, 1 watch, 0 healthy): the flagged list and the
\* healthy list together contain each group exactly once.
C14_RiskClassification ==
  aggOut.view = "risk"
    => LET r == aggOut.rows[1]
           Flags(id) == {j \in 1..Len(r.riskGames) : r.riskGames[j].id = id}
           healthy == {i \in 1..Len(r.scored) : BucketOf(r.scored[i].riskScore) = "healthy"}
       IN /\ Len(r.scored) = Len(GroupIds(aggSales))
          /\ \A i \in 1..Len(r.scored) : r.scored[i].riskScore >= 0
          /\ \A i \in 1..Len(r.scored) :
                LET g == r.scored[i]
                IN IF i \in healthy
                     THEN /\ Flags(g.id) = {}
                          /\ \E j \in 1..Len(r.safeGames) :
                                /\ r.safeGames[j].name = g.name
                                /\ r.safeGames[j].revenue = g.revenue
                     ELSE /\ Cardinality(Flags(g.id)) = 1
                          /\ \A j \in Flags(g.id) :
                                r.riskGames[j].risk = BucketOf(g.riskScore)
          /\ Len(r.safeGames) = Cardinality(healthy)
          /\ Len(r.riskGames) + Len(r.safeGames) = Len(r.scored)

\* a group scoring 3 is listed as medium next to a healthy group
C14_Witness ==
  /\ aggOut.view = "risk"
  /\ \E i \in 1..Len(aggOut.rows[1].scored) :
        /\ aggOut.rows[1].scored[i].riskScore = 3
        /\ \E j \in 1..Len(aggOut.rows[1].riskGames) :
              /\ aggOut.rows[1].riskGames[j].id = aggOut.rows[1].scored[i].id
              /\ aggOut.rows[1].riskGames[j].risk = "medium"
  /\ aggOut.rows[1].safeGames # <<>>

\* the rules of the claim, on the windows' figures of one group
RuleBigDrop(g) ==
  g.units_prev7d > 0 /\ (g.units_prev7d - g.units_7d) * 100 > 30 * g.units_prev7d

RuleDrop(g) ==
  /\ ~RuleBigDrop(g)
  /\ g.units_prev7d > 0
  /\ (g.units_prev7d - g.units_7d) * 100 >= 15 * g.units_prev7d
  /\ (g.units_prev7d - g.units_7d) * 100 <= 30 * g.units_prev7d

RulePriceDrop(g) ==
  /\ g.avg_price_prev7d.num > 0
  /\ 10 * g.avg_price_7d.num * g.avg_price_prev7d.den
       < 9 * g.avg_price_7d.den * g.avg_price_prev7d.num

RuleStalled(g) == g.units_7d = 0 /\ g.revenue > 0

RuleEventSoon(g, now) ==
  /\ g.event_date # <<>>
  /\ g.event_date[1] > now
  /\ g.event_date[1] <= now + 14 * TicksPerDay
  /\ g.units_7d < 2

Fired(cond, reason) == IF cond THEN <<reason>> ELSE <<>>
Weight(cond, w) == IF cond THEN w ELSE 0

\* C15: the risk score of an event is the sum of the weights of exactly the
\* rules whose condition holds (units drop > 30%: +3, otherwise units drop of
\* 15-30%: +1; average price drop > 10%: +2; stalled: +2; event within 14 days
\* with fewer than 2 recent units: +3), and its reasons are the fired rules in
\* that order.
C15_ScoreIsSumOfFiredRules ==
  aggOut.view = "risk"
    => LET r == aggOut.rows[1]
       IN \A i \in 1..Len(r.scored) :
            LET g == r.scored[i]
            IN /\ g.riskScore = Weight(RuleBigDrop(g), 3) + Weight(RuleDrop(g), 1)
                                 + Weight(RulePriceDrop(g), 2) + Weight(RuleStalled(g), 2)
                                 + Weight(RuleEventSoon(g, r.now), 3)
               /\ g.reasons = Fired(RuleBigDrop(g), "sales_down")
                                \o Fired(RuleDrop(g), "sales_slowing")
                                \o Fired(RulePriceDrop(g), "price_dropping")
                                \o Fired(RuleStalled(g), "stalled")
                                \o Fired(RuleEventSoon(g, r.now), "event_soon")

\* the units of the sales of a group dated in [from, to)
UnitsIn(id, from, to) ==
  LET Keep(x) == GroupId(x) = id /\ x.sold_at >= from /\ x.sold_at < to
  IN TicketsOf(SelectSeq(aggSales, Keep))

\* C16: unitsRecent counts exactly the sales with now-7d <= soldAt < now and
\* unitsPrior exactly those with now-14d <= soldAt < now-7d; a sale dated at
\* or after now is in neither.
C16_WindowsAreTrailingSevenDays ==
  aggOut.view = "risk"
    => LET r == aggOut.rows[1]
       IN \A i \in 1..Len(r.scored) :
            /\ r.scored[i].units_7d
                 = UnitsIn(r.scored[i].id, r.now - 7 * TicksPerDay, r.now)
            /\ r.scored[i].units_prev7d
                 = UnitsIn(r.scored[i].id, r.now - 14 * TicksPerDay, r.now - 7 * TicksPerDay)

\* ---- claims on the time series and the percent changes ----

\* the entries are one per calendar day from firstDay to lastDay, in
\* increasing order, each with the revenue of the sales of its day (0 if none)
OnePerDay(series, firstDay, lastDay) ==
  /\ Len(series) = lastDay - firstDay + 1
  /\ \A k \in 1..Len(series) :
        LET OnDay(x) == DayOf(x.sold_at) = firstDay + k - 1
        IN /\ series[k].date = (firstDay + k - 1) % DaysPerYear
           /\ series[k].revenue = RevenueOf(SelectSeq(aggSales, OnDay))

\* C12: the daily series of a date range has exactly one entry per calendar
\* day from the range start to the range end inclusive, in increasing date
\* order, with revenue 0 and units 0 on days without a sale.
C12_DailySeriesIsContinuous ==
  /\ (aggOut.view = "analyticsSeries" /\ aggOut.rows[1].dateRange # "all")
       => /\ OnePerDay(aggOut.rows[1].series,
                       DayOf(aggOut.rows[1].now) - RangeDays(aggOut.rows[1].dateRange),
                       DayOf(aggOut.rows[1].now))
          /\ \A k \in 1..Len(aggOut.rows[1].series) :
                LET OnDay(x) == DayOf(x.sold_at) = DayOf(aggOut.rows[1].now)
                                   - RangeDays(aggOut.rows[1].dateRange) + k - 1
                IN aggOut.rows[1].series[k].quantity = TicketsOf(SelectSeq(aggSales, OnDay))
  /\ aggOut.view = "indexChart"
       => OnePerDay(aggOut.rows[1].series,
                    DayOf(aggOut.rows[1].now) - (IndexChartDays - 1),
                    DayOf(aggOut.rows[1].now))
  /\ aggOut.view = "velocityChart"
       => /\ OnePerDay([k \in 1..Len(aggOut.rows[1].series) |->
                          [date |-> aggOut.rows[1].series[k].date,
                           revenue |-> aggOut.rows[1].series[k].units * 100]],
                       DayOf(aggOut.rows[1].now) - aggOut.rows[1].days,
                       DayOf(aggOut.rows[1].now))

\* the percent change the claim gives curr >= 0 and prev >= 0
IsPercentChange(q, curr, prev) ==
  /\ q.den # 0
  /\ IF prev > 0 THEN q.num * prev = (curr - prev) * 100 * q.den
     ELSE IF curr > 0 THEN q.num = 100 * q.den
     ELSE q.num = 0

\* C13: a period-over-period percent change of non-negative figures is
\* (curr - prev) / prev x 100 when prev > 0, 100 when prev = 0 < curr and 0
\* when both are 0; it is never NaN or Infinity.
C13_PercentChange ==
  /\ aggOut.view = "analyticsKpi"
       => /\ IsPercentChange(aggOut.rows[1].revenueTrend,
                             aggOut.rows[1].totalRevenue, aggOut.rows[1].prevRevenue)
          /\ IsPercentChange(aggOut.rows[1].unitsTrend,
                             aggOut.rows[1].totalUnits, aggOut.rows[1].prevUnits)
  /\ aggOut.view = "marketKpi"
       => IsPercentChange(aggOut.rows[1].trend, aggOut.rows[1].units_7d_total,
                          aggOut.rows[1].units_prev7d_total)

\* ---- claims on the manual entry form and the CSV bulk import ----

\* an event of the store has this name
NameInStore(row) ==
  \E e \in EventIds : toLowerCase(EventRow(e).name) = toLowerCase(row.eventName)

ImportToasts == {k \in 1..Len(addToasts) : addToasts[k].title = "Import complete"}

StoredFrom(via) == LET Keep(x) == x.via = via IN SelectSeq(addStored, Keep)

\* C17: every data row whose event name exists in the store is inserted, a row
\* with an unknown event name is skipped without aborting the batch, in file
\* order, and the imported count reported is the number of data rows minus the
\* unmatched ones.
C17_ImportSkipsUnmatchedRows ==
  /\ importPc.state # "thrown"
  /\ \A k \in ImportToasts :
        LET matched == SelectSeq(addToasts[k].rows, NameInStore)
            stored == StoredFrom("csv")
        IN /\ addToasts[k].counts[1] = Len(matched)
           /\ [i \in 1..Len(stored) |-> stored[i].src] = matched

\* a quantity or price cell that is missing or not a number
Malformed(cell) == cell = <<>> \/ Number(cell).nan

\* C18: a row with a malformed quantity or price is never stored, and the
\* import reports a success count and a skipped count that sum to the number
\* of data rows.
C18_MalformedRowsSkippedAndCounted ==
  /\ \A i \in 1..Len(addStored) :
        addStored[i].via = "csv"
          => ~Malformed(addStored[i].src.quantity) /\ ~Malformed(addStored[i].src.price)
  /\ \A k \in ImportToasts :
        /\ Len(addToasts[k].counts) = 2
        /\ addToasts[k].counts[1] + addToasts[k].counts[2] = Len(addToasts[k].rows)

\* C19: an imported row with Platform LFT is stored as LiveFootballTickets,
\* and a row with a canonical platform value is stored under that value.
C19_ImportKeepsCanonicalPlatform ==
  \A i \in 1..Len(addStored) :
     addStored[i].via = "csv"
       => /\ addStored[i].src.platform = "LFT" => addStored[i].platform = LFT
          /\ addStored[i].src.platform \in Platforms
               => addStored[i].platform = addStored[i].src.platform

\* C20: every sale written through the form or the import has quantity >= 1
\* and ticketPrice >= 0.
C20_StoredSalesArePositive ==
  \A i \in 1..Len(addStored) :
     /\ addStored[i].quantity.num >= addStored[i].quantity.den
     /\ addStored[i].ticket_price.num >= 0

\* C24: the imported count reported at the end of a CSV import is the number
\* of rows the store accepted; a row whose insert failed is not counted.
C24_ImportCountIsRowsStored ==
  \A k \in ImportToasts : addToasts[k].counts[1] = Len(StoredFrom("csv"))

\* ---- further claims on useAnalyticsData ----

\* C25: once every started fetch has completed, every displayed sale passes
\* the filter of the currently selected team tab, whatever the order in which
\* the fetches completed.
C25_DisplayedSalesMatchTab ==
  (hookSeq > 0 /\ hookFetches = {})
    => \A i \in 1..Len(hookSales) : TabFilter(<<hookSales[i]>>, teamTab) # <<>>

\* C26: whenever the view's loading flag is false, no fetch of the view is in
\* flight.
C26_NotLoadingMeansNoFetch == ~hookLoading => hookFetches = {}

\* ---- further claims on HealthPage ----

\* C29: while a health-check run is in progress no second run is started: no
\* item that has been checked is reset to pending and the run does not go back
\* to its first probe.
C29_SingleHealthRun ==
  [][running => /\ runs' = runs
                /\ runPc' = "db" => runPc = "db"
                /\ \A item \in {"db", "auth", "data"} :
                      health[item] # "pending" => health'[item] # "pending"]_vars

\* a re-check started after the first run ended is in progress, past its
\* first probe
C29_Witness == running /\ runs = 2 /\ runPc = "auth"

\* C30: every health-check run that is started eventually ends with running
\* false and each of the three items in status ok, warn or error.
C30_RunEnds ==
  running ~> (~running /\ \A item \in {"db", "auth", "data"} :
                            health[item] \in {"ok", "warn", "error"})

\* a run has ended after its data probe threw
C30_Witness == ~running /\ runs > 0 /\ health.data = "error"

\* ---- claims on the sales table ----

\* the order of the values of a sortable column
KeyRank(x, key) ==
  CASE key = "platform" -> (IF x.platform = LFT THEN 1 ELSE 2)
    [] key = "sold_at" -> x.sold_at
    [] key = "ticket_price" -> x.ticket_price
    [] OTHER -> x.quantity

\* C22: the sorted view is ordered by the selected column in the selected
\* direction, and rows with equal sort keys keep their relative input order
\* (the order of the fetched rows).
C22_SortOrdersStably ==
  LET f == SalesFiltered(tblSales, tblPlatform, sortKey, sortDir)
      Pos(x) == CHOOSE i \in 1..Len(tblSales) : tblSales[i] = x
  IN \A i \in 1..Len(f) - 1 :
        LET a == KeyRank(f[i], sortKey)
            b == KeyRank(f[i + 1], sortKey)
        IN /\ IF sortDir = "asc" THEN a <= b ELSE a >= b
           /\ a = b => Pos(f[i]) < Pos(f[i + 1])

\* C27: the current page number lies between 1 and max(1, totalPages).
C27_PageInRange == page >= 1 /\ page <= Max(1, totalPages)

\* ---- claims on AuthGuard ----

\* C28: once an auth state-change event has been delivered, the session held
\* by the guard is the session of the latest event delivered; in particular
\* protected content is not rendered after a sign-out event.
C28_SessionIsLatestEvent ==
  authLast # <<>>
    => /\ session = authLast[1]
       /\ authLast[1] = Null => AuthRender # "children"

\* ---- claims on the CSV export and the sale figures ----

\* C21: the exported text, parsed again, has one line per row of the view
\* after the header, in the view's order, each with the row's event name,
\* section text, quantity and price in the columns of the export.
C21_ExportRoundTrip ==
  aggOut.view = "csv"
    => /\ Len(aggOut.rows) = Len(aggSales) + 1
       /\ \A i \in 1..Len(aggSales) :
             LET cells == aggOut.rows[i + 1]
             IN /\ Len(cells) = 8
                /\ cells[3] = aggSales[i].events.name
                /\ cells[4] = aggSales[i].section
                /\ Number(cells[5]) = Num(aggSales[i].quantity, 1)
                /\ Number(cells[6]) = Num(aggSales[i].ticket_price, 1)

====
